---- MODULE Spec2Model ----
(***************************************************************************)
(* State-machine model of the SunoLabs competition bot (src/index.js):     *)
(* the round lifecycle (startNewCycle / startVoting / announceWinners),    *)
(* the /confirm-payment handler with its suspension points, the Telegram   *)
(* handlers that touch the ledger, the snapshot file and process restart.  *)
(*                                                                         *)
(* Units: time in seconds, SOL amounts in 0.001 SOL, fees in 0.0001 SOL,   *)
(* retention and multiplier as numerators over RateDen.                    *)
(* A null timestamp, a null votedFor and an absent track are 0, "" and "". *)
(***************************************************************************)
EXTENDS Integers, Sequences, FiniteSets, TLC

\* ------------------------------------------------------------ bounds
MaxRefs       == 2     \* payment references that can exist
MaxHandlers   == 2     \* /confirm-payment handlers in flight at once
MaxDeliveries == 2     \* /confirm-payment requests delivered to a process never restarted
MaxRestartDeliveries == 1  \* the same, in a run that allows restarts
MaxCrashes    == 1     \* process restarts in a run
MaxCycles     == 2     \* executions of startNewCycle in a run
MaxBallotRefs == 3     \* payment references in a run followed up to its first voting phase
MaxBallotDeliveries == 3  \* /confirm-payment requests delivered in such a run
MaxPotRefs    == 2     \* payment references of the SOL-pot variant
MaxPotDeliveries == 3  \* /confirm-payment requests delivered to the SOL-pot variant
MaxRawDeliveries == 2  \* /confirm-payment requests with an arbitrary body

Users     == {"u1", "u2"}          \* Telegram identities (any of them can press Vote)
Payers    == {"u1"}                \* identities that talk to the bot and pay
Wallets   == {"w1"}                \* well-formed sender wallets
Amounts   == {600}                 \* accepted amounts: 0.60 SOL
Refs      == 1..MaxRefs
BallotRefs == 1..MaxBallotRefs
PotRefs   == 1..MaxPotRefs
PotAmounts == {0, 10, 50, 100}     \* amounts sent to the SOL-pot variant (0: absent)
PotWallets == {"", "w1"}           \* senderWallet sent to the SOL-pot variant ("": absent)
Slots     == 1..MaxHandlers
BuyResults == {0, 1000}            \* tokens returned by the market buy (0: failed)
DownTimes == {1, 400}              \* seconds a crashed process stays down

\* ------------------------------------------------- program constants
SubmissionSecs == 300      \* 5 * 60 * 1000 ms
VotingSecs     == 300
CooldownSecs   == 60
BootCycleSecs  == 3        \* setTimeout(startNewCycle, 3000) at boot
BootResumeSecs == 1        \* setTimeout(..., 1000) at boot, deadline elapsed
WebhookSecs    == 1        \* the 1000 ms sleep between deleteWebHook and setWebHook
RateDen        == 90000    \* common denominator of retention and multiplier
NumPrizes      == 5

VARIABLES
  treasurySUNO, transFeeCollected, pendingPayments, participants, voters,
  phase, cycleStartTime, nextPhaseTime,   \* the process's state (src/index.js:70-77)
  disk,        \* the snapshot file: <<>> (no file) or <<snapshot>>
  now,         \* wall clock
  timers,      \* pending setTimeout callbacks of the lifecycle: [fn, due]
  boot,        \* position of the app.listen callback: "load", "webhook", "done"
  runs,        \* lifecycle functions suspended at an await
  conf,        \* /confirm-payment handlers, by slot
  epoch,       \* identity of the pendingPayments array (changes when it is replaced)
  fx,          \* per reference: external calls issued and ledger credits applied
  req,         \* /confirm-payment requests: how many were delivered, the reference of
               \* the last one and whether it was answered "Already processed"
  ans,         \* the last answer to a vote_ callback
  usedRefs,    \* references generated by a start_ callback or seen in a request
  chan,        \* what startVoting posted to the channels this round: the userIds on
               \* the Vote buttons (tracks) and the entries' indices in participants (slots)
  payouts,     \* transfers issued by announceWinners this round: kind, recipient,
               \* amount, rank (prizes) and index of the record in its array (slot)
  prized,      \* slots of participants that were sent a prize since the array was
               \* last emptied (an entry keeps its slot until then, across restarts)
  nCrashes, nCycles,
  part_002,    \* the state of the SOL-pot variant of the program (src/unnamed/part_002)
  part_001     \* the state of the token variant of the program (src/unnamed/part_001)

state == <<treasurySUNO, transFeeCollected, pendingPayments, participants, voters,
           phase, cycleStartTime, nextPhaseTime>>
main == <<treasurySUNO, transFeeCollected, pendingPayments, participants, voters,
          phase, cycleStartTime, nextPhaseTime, disk, now, timers, boot, runs,
          conf, epoch, fx, req, ans, usedRefs, chan, payouts, prized,
          nCrashes, nCycles>>

variants == <<part_002, part_001>>

vars == <<main, variants>>

\* ------------------------------------------------------------ helpers
Range(s) == {s[i] : i \in DOMAIN s}

Min(a, b) == IF a <= b THEN a ELSE b

\* Array.prototype.find: index of the first element satisfying P, 0 if none
FindFirst(s, P(_)) ==
  IF \E i \in DOMAIN s : P(s[i])
  THEN CHOOSE i \in DOMAIN s : P(s[i]) /\ \A j \in 1..(i - 1) : ~P(s[j])
  ELSE 0

\* Array.prototype.filter, as the indices kept (the elements are shared objects)
RECURSIVE FilterIdx(_, _, _)
FilterIdx(s, P(_), i) ==
  IF i > Len(s) THEN <<>>
  ELSE (IF P(s[i]) THEN <<i>> ELSE <<>>) \o FilterIdx(s, P, i + 1)

\* ---------------------------------------------------------------- tiers
\* getTier: the name of the tier of an amount (0.001 SOL)
getTier(amount) ==
  IF amount >= 500 THEN "Whale"
  ELSE IF amount >= 100 THEN "High Tier"
  ELSE IF amount >= 50 THEN "Mid Tier"
  ELSE "Basic"

\* (mutant) an interpolation that starts from the Mid tier's retention
getWhaleRetentionLowBase(amount) ==
  IF amount < 500 THEN 58500
  ELSE IF amount >= 5000 THEN 67500
  ELSE 48500 + 2 * amount

\* getWhaleRetention: 0.65 + ((amount - 0.50) / 4.50) * 0.10, over RateDen
getWhaleRetention(amount) ==
  IF amount < 500 THEN 58500
  ELSE IF amount >= 5000 THEN 67500
  ELSE 57500 + 2 * amount

\* (mutant) an interpolation that is not clamped at 5.00
getWhaleMultiplierUnclamped(amount) ==
  IF amount < 500 THEN 103500
  ELSE 100000 + 7 * amount

\* getWhaleMultiplier: 1.15 + ((amount - 0.50) / 4.50) * 0.35, over RateDen
getWhaleMultiplier(amount) ==
  IF amount < 500 THEN 103500
  ELSE IF amount >= 5000 THEN 135000
  ELSE 100000 + 7 * amount

\* tier.retention / getWhaleRetention as applied by the payment split
Retention(amount) ==
  CASE getTier(amount) = "Whale"     -> getWhaleRetention(amount)
    [] getTier(amount) = "High Tier" -> 54000
    [] getTier(amount) = "Mid Tier"  -> 49500
    [] OTHER                         -> 45000

\* tier.multiplier / getWhaleMultiplier as applied by the payment split
Multiplier(amount) ==
  CASE getTier(amount) = "Whale"     -> getWhaleMultiplier(amount)
    [] getTier(amount) = "High Tier" -> 99000
    [] getTier(amount) = "Mid Tier"  -> 94500
    [] OTHER                         -> 90000

\* ---------------------------------------------------------- persistence
\* the object saveState serialises
Snapshot(p, v, ph, cst, npt, tr, fee, pp) ==
  [participants |-> p, voters |-> v, phase |-> ph, cycleStartTime |-> cst,
   nextPhaseTime |-> npt, treasurySUNO |-> tr, transFeeCollected |-> fee,
   pendingPayments |-> pp]

\* saveState(), run at the end of a synchronous section: writes the new state
SaveState ==
  disk' = <<Snapshot(participants', voters', phase', cycleStartTime', nextPhaseTime',
                     treasurySUNO', transFeeCollected', pendingPayments')>>

\* the values of the module-level initialisers (src/index.js:70-77)
InitialState == Snapshot(<<>>, <<>>, "submission", 0, 0, 0, 0, <<>>)

\* d.field || default, for a number and for a string
OrNum(v, default) == IF v = 0 THEN default ELSE v
OrStr(v, default) == IF v = "" THEN default ELSE v

\* (mutant) a loadState that does not restore pendingPayments
LoadedWithoutPending ==
  IF disk = <<>> THEN InitialState
  ELSE LET d == disk[1] IN
       Snapshot(d.participants, d.voters, OrStr(d.phase, "submission"),
                OrNum(d.cycleStartTime, 0), OrNum(d.nextPhaseTime, 0),
                OrNum(d.treasurySUNO, 0), OrNum(d.transFeeCollected, 0), <<>>)

\* what loadState() leaves in memory in a fresh process: the initial values when there
\* is no file, else every field of the file as d.field || default
Loaded ==
  IF disk = <<>> THEN InitialState
  ELSE LET d == disk[1] IN
       Snapshot(d.participants, d.voters, OrStr(d.phase, "submission"),
                OrNum(d.cycleStartTime, 0), OrNum(d.nextPhaseTime, 0),
                OrNum(d.treasurySUNO, 0), OrNum(d.transFeeCollected, 0),
                d.pendingPayments)

LoadState ==
  /\ participants' = Loaded.participants
  /\ voters' = Loaded.voters
  /\ phase' = Loaded.phase
  /\ cycleStartTime' = Loaded.cycleStartTime
  /\ nextPhaseTime' = Loaded.nextPhaseTime
  /\ treasurySUNO' = Loaded.treasurySUNO
  /\ transFeeCollected' = Loaded.transFeeCollected
  /\ pendingPayments' = Loaded.pendingPayments

\* ---------------------------------------------------- request bodies
\* A field of req.body that is absent is 0 (reference) or "" (userId, senderWallet).
\* The amount is kept as received: lead is the number its longest numeric prefix
\* denotes, in 0.001 SOL (NaN if it has none or is absent), junk tells whether
\* other characters follow the prefix ("0.6abc").
NaN == -1
Absent == [lead |-> NaN, junk |-> FALSE]
Numeric(x) == [lead |-> x, junk |-> FALSE]
NoBody == [reference |-> 0, userId |-> "", amount |-> Absent, senderWallet |-> ""]

\* parseFloat: the value of the longest numeric prefix, whatever follows it
parseFloat(raw) == raw.lead

\* the bounds of the amount test, 0.001 and 100 SOL
MinAmount == 1
MaxAmount == 100000

\* new PublicKey(senderWallet) does not throw
IsPublicKey(w) == w \in Wallets

\* the validation of /confirm-payment: none of its three tests answers 400
Validates(r, u, a, w) ==
  /\ ~(u = "" \/ r = 0 \/ w = "")
  /\ ~(parseFloat(a) = NaN \/ parseFloat(a) < MinAmount \/ parseFloat(a) > MaxAmount)
  /\ IsPublicKey(w)

\* ------------------------------------------------------------- ghosts
NoFx == [fee |-> 0, buy |-> 0, xfer |-> 0, credit |-> 0, reg |-> 0]
Bump(r, f) == fx' = [fx EXCEPT ![r][f] = @ + 1]

IdleHandler == [pc |-> "idle", reference |-> 0, userId |-> "", amount |-> 0,
                wallet |-> "", totalSUNO |-> 0, payIdx |-> 0, payEpoch |-> 0]
NoChan == [started |-> FALSE, tracks |-> {}, slots |-> {}]

\* the module-level initialisers of the SOL-pot variant (src/unnamed/part_002:63-68)
PotInitial ==
  [submissions |-> <<>>, potSOL |-> 0, pendingPayments |-> <<>>,
   phase |-> "submission", file |-> <<>>, msgs |-> {}, n |-> 0]

\* wallets a request to the token variant can name
TokWallets == {"w1", "w2"}

\* the module-level initialisers of the token variant (src/unnamed/part_001:65-73), no
\* snapshot file, and the timer its app.listen callback sets when no cycle was
\* persisted; a wallet absent from tokenHolders holds 0
TokInitial ==
  [treasurySOL |-> 0, atStakeSOL |-> 0, tokenHolders |-> [w \in TokWallets |-> 0],
   totalTokenSupply |-> 0, pendingPayments |-> <<>>, submissions |-> <<>>,
   phase |-> "submission", file |-> <<>>, timer |-> "startNewCycle", runs |-> {},
   msgs |-> {}, confs |-> {}, n |-> 0, cycles |-> 0]

\* ---------------------------------------------------------------- Init
\* the module-level initialisers (src/index.js:70-77); app.listen's callback pending
Init ==
  /\ treasurySUNO = 0
  /\ transFeeCollected = 0
  /\ pendingPayments = <<>>
  /\ participants = <<>>
  /\ voters = <<>>
  /\ phase = "submission"
  /\ cycleStartTime = 0
  /\ nextPhaseTime = 0
  /\ disk = <<>>
  /\ now = 1
  /\ timers = {}
  /\ boot = "load"
  /\ runs = {}
  /\ conf = [h \in Slots |-> IdleHandler]
  /\ epoch = 0
  /\ fx = [r \in Refs \cup BallotRefs |-> NoFx]
  /\ req = [n |-> 0, ref |-> 0, dup |-> FALSE, status |-> 0, body |-> NoBody]
  /\ ans = "none"
  /\ usedRefs = {}
  /\ chan = NoChan
  /\ payouts = <<>>
  /\ prized = <<>>
  /\ nCrashes = 0
  /\ nCycles = 0
  /\ part_002 = PotInitial
  /\ part_001 = TokInitial

ghosts == <<fx, req, ans, usedRefs, chan, payouts, nCrashes, nCycles>>
process == <<now, timers, boot, runs, conf, epoch>>

\* ------------------------------------------------------ Telegram handlers
\* Keypair.generate(): a reference never generated or seen before
FreshRefIn(R) == CHOOSE r \in R \ usedRefs : \A q \in R \ usedRefs : r <= q
FreshRef == FreshRefIn(Refs)

\* the record a start_ callback pushes
NewPending(u, choice, r) ==
  [userId |-> u, reference |-> r, confirmed |-> FALSE, choice |-> choice,
   paid |-> FALSE, track |-> "", user |-> ""]

\* bot.on("callback_query"), start_upload_<u> / start_vote_<u>, in the submission phase
\* (R: the references the run can generate)
StartChoiceIn(u, choice, R) ==
  /\ boot # "load"
  /\ phase = "submission"
  /\ R \ usedRefs # {}
  /\ pendingPayments' = Append(pendingPayments, NewPending(u, choice, FreshRefIn(R)))
  /\ usedRefs' = usedRefs \cup {FreshRefIn(R)}
  /\ UNCHANGED <<treasurySUNO, transFeeCollected, participants, voters,
                 phase, cycleStartTime, nextPhaseTime>>
  /\ SaveState
  /\ UNCHANGED <<process, fx, req, ans, chan, payouts, prized, nCrashes, nCycles>>
  /\ UNCHANGED variants

StartChoice(u, choice) == StartChoiceIn(u, choice, Refs)

\* the pending payment an audio message is attached to
UploadChoice(pp, u) ==
  FindFirst(pp, LAMBDA p : p.userId = u /\ p.choice = "upload" /\ ~p.paid)

\* bot.on("message") with msg.audio from u, in the submission phase
Audio(u) ==
  /\ boot # "load"
  /\ phase = "submission"
  /\ UploadChoice(pendingPayments, u) # 0
  /\ pendingPayments' = [pendingPayments EXCEPT
        ![UploadChoice(pendingPayments, u)].track = u,
        ![UploadChoice(pendingPayments, u)].user = u]
  /\ UNCHANGED <<treasurySUNO, transFeeCollected, participants, voters,
                 phase, cycleStartTime, nextPhaseTime>>
  /\ SaveState
  /\ UNCHANGED <<process, ghosts, prized>>
  /\ UNCHANGED variants

\* (mutant) a vote handler that does not look at entry.voters
AlreadyVotedUnchecked(entry, voterId) == FALSE

\* entry.voters.includes(voterId)
AlreadyVoted(entry, voterId) == voterId \in Range(entry.voters)

\* the index of the voter record of voterId, 0 if none
VoterOf(vs, voterId) == FindFirst(vs, LAMBDA v : v.userId = voterId)

\* bot.on("callback_query"), vote_<targetId> pressed by voterId
Vote(voterId, targetId) ==
  /\ boot # "load"
  /\ LET e == FindFirst(participants, LAMBDA p : p.userId = targetId)
         v == VoterOf(voters, voterId)
     IN IF e = 0
        THEN UNCHANGED <<state, disk, ans>>
        ELSE IF AlreadyVoted(participants[e], voterId)
        THEN /\ ans' = "Already voted"
             /\ UNCHANGED <<state, disk>>
        ELSE /\ participants' = [participants EXCEPT
                   ![e].votes = @ + 1,
                   ![e].voters = Append(@, voterId)]
             /\ voters' = (IF v = 0 THEN voters
                           ELSE [voters EXCEPT ![v].votedFor = targetId])
             /\ UNCHANGED <<treasurySUNO, transFeeCollected, pendingPayments,
                            phase, cycleStartTime, nextPhaseTime>>
             /\ SaveState
             /\ ans' = "Voted"
  /\ UNCHANGED <<process, fx, req, usedRefs, chan, payouts, prized, nCrashes, nCycles>>
  /\ UNCHANGED variants

\* ------------------------------------------------------- /confirm-payment
\* pendingPayments.find(p => p.reference === reference)
FindPayment(pp, r) == FindFirst(pp, LAMBDA p : p.reference = r)

\* (mutant) a duplicate check that tests the paid flag instead of the confirmed flag
IsDuplicateByPaid(pp, r) == FindPayment(pp, r) # 0 /\ pp[FindPayment(pp, r)].paid

\* the duplicate check: existing && existing.confirmed
IsDuplicate(pp, r) == FindPayment(pp, r) # 0 /\ pp[FindPayment(pp, r)].confirmed

\* (mutant) a confirmation that pushes a record whether or not one exists
MarkConfirmedPushed(pp, r, u) ==
  Append(pp, [userId |-> u, reference |-> r, confirmed |-> TRUE,
              choice |-> "none", paid |-> FALSE, track |-> "", user |-> ""])

\* existing.confirmed = true, or the push of a new confirmed record
MarkConfirmed(pp, r, u) ==
  IF FindPayment(pp, r) # 0
  THEN [pp EXCEPT ![FindPayment(pp, r)].confirmed = TRUE]
  ELSE Append(pp, [userId |-> u, reference |-> r, confirmed |-> TRUE,
                   choice |-> "none", paid |-> FALSE, track |-> "", user |-> ""])

IdleSlot == CHOOSE h \in Slots : conf[h].pc = "idle" /\ \A g \in 1..(h - 1) : conf[g].pc # "idle"

\* POST /confirm-payment with reference r, userId u, amount a (as received) and
\* senderWallet w, up to its first await: validation (400), duplicate check
\* ("Already processed"), confirmed flag, fee transfer issued
ConfirmPayment(r, u, a, w) ==
  /\ boot # "load"
  /\ req' = [n |-> req.n + 1, ref |-> r,
             dup |-> Validates(r, u, a, w) /\ IsDuplicate(pendingPayments, r),
             status |-> IF ~Validates(r, u, a, w) THEN 400
                        ELSE IF IsDuplicate(pendingPayments, r) THEN 200 ELSE 0,
             body |-> [reference |-> r, userId |-> u, amount |-> a, senderWallet |-> w]]
  /\ IF ~Validates(r, u, a, w)
     THEN UNCHANGED <<state, conf, fx, usedRefs>>
     ELSE /\ usedRefs' = usedRefs \cup {r}
          /\ IF IsDuplicate(pendingPayments, r)
             THEN UNCHANGED <<state, conf, fx>>
             ELSE /\ \E h \in Slots : conf[h].pc = "idle"
                  /\ pendingPayments' = MarkConfirmed(pendingPayments, r, u)
                  /\ conf' = [conf EXCEPT ![IdleSlot] =
                        [pc |-> "fee", reference |-> r, userId |-> u,
                         amount |-> parseFloat(a), wallet |-> w, totalSUNO |-> 0,
                         payIdx |-> 0, payEpoch |-> 0]]
                  /\ Bump(r, "fee")
                  /\ UNCHANGED <<treasurySUNO, transFeeCollected, participants, voters,
                                 phase, cycleStartTime, nextPhaseTime>>
  /\ UNCHANGED <<disk, now, timers, boot, runs, epoch, ans, chan, payouts, prized,
                 nCrashes, nCycles>>
  /\ UNCHANGED variants

\* (mutant) a handler that gives up when the fee step is over
AfterFeeAbort == "faildm"

\* where the handler continues after the try/catch around the fee transfer
AfterFee == "buy"

\* sendSOLPayout returned (it swallows its own errors): fee booked, market buy issued
ConfirmFeeDone(h) ==
  /\ conf[h].pc = "fee"
  /\ transFeeCollected' = transFeeCollected + conf[h].amount
  /\ conf' = [conf EXCEPT ![h].pc = AfterFee]
  /\ Bump(conf[h].reference, "buy")
  /\ UNCHANGED <<treasurySUNO, pendingPayments, participants, voters,
                 phase, cycleStartTime, nextPhaseTime>>
  /\ UNCHANGED <<disk, now, timers, boot, runs, epoch, req, ans, usedRefs,
                 chan, payouts, prized, nCrashes, nCycles>>
  /\ UNCHANGED variants

\* (mutant) a handler that does not test the purchased amount
AfterBuyUntested(t) == "transfer"

\* if (totalSUNO === 0 || !totalSUNO): the failure branch, else the token transfer
AfterBuy(t) == IF t = 0 THEN "faildm" ELSE "transfer"

\* buySUNOOnMarket returned t tokens (0: it threw or bought nothing)
ConfirmBuyDone(h, t) ==
  /\ conf[h].pc = "buy"
  /\ conf' = [conf EXCEPT ![h].pc = AfterBuy(t), ![h].totalSUNO = t]
  /\ IF AfterBuy(t) = "transfer"
     THEN Bump(conf[h].reference, "xfer")
     ELSE UNCHANGED fx
  /\ UNCHANGED <<state, disk, now, timers, boot, runs, epoch, req, ans,
                 usedRefs, chan, payouts, prized, nCrashes, nCycles>>
  /\ UNCHANGED variants

\* the failure DM was attempted: respond {ok:false}
ConfirmFailNotified(h) ==
  /\ conf[h].pc = "faildm"
  /\ conf' = [conf EXCEPT ![h] = IdleHandler]
  /\ UNCHANGED <<state, disk, now, timers, boot, runs, epoch, fx, req, ans,
                 usedRefs, chan, payouts, prized, nCrashes, nCycles>>
  /\ UNCHANGED variants

\* (mutant) a split that rounds to the nearest token
UserSUNORounded(total, amount) ==
  (total * Retention(amount) + RateDen \div 2) \div RateDen

\* Math.floor(totalSUNO * retention)
UserSUNO(total, amount) == (total * Retention(amount)) \div RateDen

\* userData
UserData(h) ==
  [userId |-> conf[h].userId, wallet |-> conf[h].wallet, amount |-> conf[h].amount,
   sunoReceived |-> UserSUNO(conf[h].totalSUNO, conf[h].amount),
   tier |-> getTier(conf[h].amount), multiplier |-> Multiplier(conf[h].amount),
   paid |-> TRUE]

VoterRec(d) ==
  [userId |-> d.userId, wallet |-> d.wallet, amount |-> d.amount,
   sunoReceived |-> d.sunoReceived, tier |-> d.tier, multiplier |-> d.multiplier,
   paid |-> d.paid, choice |-> "vote", votedFor |-> ""]

EntryRec(d, payment) ==
  [userId |-> d.userId, wallet |-> d.wallet, amount |-> d.amount,
   sunoReceived |-> d.sunoReceived, tier |-> d.tier, multiplier |-> d.multiplier,
   paid |-> d.paid, choice |-> "upload", user |-> payment.user,
   track |-> payment.track, votes |-> 0, voters |-> <<>>]

\* (mutant) a treasury update that assigns instead of adding
CreditAssigned(treasury, competitionSUNO) == competitionSUNO

\* treasurySUNO += competitionSUNO
Credit(treasury, competitionSUNO) == treasury + competitionSUNO

\* (mutant) a registration that follows the choice without looking for a track
RegistersEntryByChoice(pp, r) ==
  FindPayment(pp, r) # 0 /\ pp[FindPayment(pp, r)].choice = "upload"

\* whether the registration step appends to participants (else to voters)
RegistersEntry(pp, r) ==
  /\ FindPayment(pp, r) # 0
  /\ pp[FindPayment(pp, r)].choice = "upload"
  /\ pp[FindPayment(pp, r)].track # ""

\* transferTokensToRecipient returned: on success the treasury is credited and the
\* payer registered by the choice stored with the reference; the DM is then issued
ConfirmTransferDone(h, ok) ==
  /\ conf[h].pc = "transfer"
  /\ IF ~ok
     THEN /\ conf' = [conf EXCEPT ![h].pc = "faildm"]
          /\ UNCHANGED <<state, fx>>
     ELSE LET r == conf[h].reference
              d == UserData(h)
          IN /\ treasurySUNO' = Credit(treasurySUNO, conf[h].totalSUNO - d.sunoReceived)
             /\ IF RegistersEntry(pendingPayments, r)
                THEN /\ participants' = Append(participants,
                            EntryRec(d, pendingPayments[FindPayment(pendingPayments, r)]))
                     /\ UNCHANGED voters
                ELSE /\ voters' = Append(voters, VoterRec(d))
                     /\ UNCHANGED participants
             /\ conf' = [conf EXCEPT ![h].pc = "dm",
                                     ![h].payIdx = FindPayment(pendingPayments, r),
                                     ![h].payEpoch = epoch]
             /\ fx' = [fx EXCEPT ![r].credit = @ + 1, ![r].reg = @ + 1]
             /\ UNCHANGED <<transFeeCollected, pendingPayments, phase,
                            cycleStartTime, nextPhaseTime>>
  /\ UNCHANGED <<disk, now, timers, boot, runs, epoch, req, ans, usedRefs,
                 chan, payouts, prized, nCrashes, nCycles>>
  /\ UNCHANGED variants

\* the DM was attempted: payment.paid = true on the record found at registration
\* (an object no longer in the array if the array was replaced), saveState, {ok:true}
ConfirmDmDone(h) ==
  /\ conf[h].pc = "dm"
  /\ pendingPayments' =
       (IF conf[h].payIdx # 0 /\ conf[h].payEpoch = epoch
        THEN [pendingPayments EXCEPT ![conf[h].payIdx].paid = TRUE]
        ELSE pendingPayments)
  /\ UNCHANGED <<treasurySUNO, transFeeCollected, participants, voters,
                 phase, cycleStartTime, nextPhaseTime>>
  /\ SaveState
  /\ conf' = [conf EXCEPT ![h] = IdleHandler]
  /\ UNCHANGED <<now, timers, boot, runs, epoch, fx, req, ans, usedRefs,
                 chan, payouts, prized, nCrashes, nCycles>>
  /\ UNCHANGED variants

\* ------------------------------------------------------------ lifecycle
Run(fn, pc) == [fn |-> fn, pc |-> pc, ups |-> <<>>, i |-> 0, prizePool |-> 0,
                voterPool |-> 0, wv |-> <<>>]

Max(a, b) == IF a >= b THEN a ELSE b

\* setTimeout(fn, secs * 1000) called at time t
Timer(fn, t, secs) == [fn |-> fn, due |-> t + secs]

\* a timer callback runs when its time has come: the clock is then at least its due time
Fires(t, fn) ==
  /\ t \in timers
  /\ t.fn = fn
  /\ timers' = timers \ {t}
  /\ now' = Max(now, t.due)

\* participants.filter(p => p.choice === "upload" && p.paid)
Uploaders(ps) == FilterIdx(ps, LAMBDA p : p.choice = "upload" /\ p.paid, 1)

\* startNewCycle up to its await (the main-channel announcement)
StartNewCycle ==
  /\ nCycles < MaxCycles
  /\ \E t \in timers : Fires(t, "startNewCycle")
  /\ phase' = "submission"
  /\ cycleStartTime' = now'
  /\ nextPhaseTime' = now' + SubmissionSecs
  /\ UNCHANGED <<treasurySUNO, transFeeCollected, pendingPayments, participants, voters>>
  /\ SaveState
  /\ runs' = runs \cup {Run("startNewCycle", "announce")}
  /\ nCycles' = nCycles + 1
  /\ chan' = NoChan
  /\ payouts' = <<>>
  /\ UNCHANGED prized
  /\ UNCHANGED <<boot, conf, epoch, fx, req, ans, usedRefs, nCrashes>>
  /\ UNCHANGED variants

\* startNewCycle after the announcement: setTimeout(startVoting, 5 min)
StartNewCycleDone ==
  /\ \E e \in runs :
       /\ e.fn = "startNewCycle"
       /\ runs' = runs \ {e}
  /\ timers' = timers \cup {Timer("startVoting", now, SubmissionSecs)}
  /\ UNCHANGED <<state, disk, now, boot, conf, epoch, ghosts, prized>>
  /\ UNCHANGED variants

\* startVoting up to its first await
StartVoting ==
  /\ \E t \in timers : Fires(t, "startVoting")
  /\ IF Uploaders(participants) = <<>>
     THEN /\ runs' = runs \cup {Run("startVoting", "noentries")}
          /\ UNCHANGED <<state, disk>>
     ELSE /\ phase' = "voting"
          /\ nextPhaseTime' = now' + VotingSecs
          /\ UNCHANGED <<treasurySUNO, transFeeCollected, pendingPayments,
                         participants, voters, cycleStartTime>>
          /\ SaveState
          /\ runs' = runs \cup
                {[Run("startVoting", "announce") EXCEPT !.ups = Uploaders(participants)]}
  /\ UNCHANGED <<boot, conf, epoch, ghosts, prized>>
  /\ UNCHANGED variants

\* (mutant) a no-uploads branch that falls through to the voting phase
SkipPhaseVoting == "voting"

\* the phase the no-uploads branch of startVoting enters
SkipPhase == "cooldown"

\* startVoting, no uploads, after the "No entries" message
StartVotingNoEntries ==
  /\ \E e \in runs :
       /\ e.fn = "startVoting" /\ e.pc = "noentries"
       /\ runs' = runs \ {e}
  /\ phase' = SkipPhase
  /\ UNCHANGED <<treasurySUNO, transFeeCollected, pendingPayments, participants,
                 voters, cycleStartTime, nextPhaseTime>>
  /\ SaveState
  /\ timers' = timers \cup {Timer("startNewCycle", now, CooldownSecs)}
  /\ UNCHANGED <<now, boot, conf, epoch, ghosts, prized>>
  /\ UNCHANGED variants

\* startVoting after its messages: "VOTING STARTED" to both channels, then the first k
\* tracks (k < uploaders.length: a send failed, which ends the loop); then
\* setTimeout(announceWinners, 5 min).  No statement between these awaits reads or
\* writes the process's state, so they are one suspension.
StartVotingPosted(k) ==
  /\ \E e \in runs :
       /\ e.fn = "startVoting" /\ e.pc = "announce"
       /\ k <= Len(e.ups)
       /\ runs' = runs \ {e}
       /\ chan' = [started |-> TRUE,
                   tracks |-> {participants[e.ups[j]].userId : j \in 1..k},
                   slots |-> {e.ups[j] : j \in 1..k}]
  /\ timers' = timers \cup {Timer("announceWinners", now, VotingSecs)}
  /\ UNCHANGED <<state, disk, now, boot, conf, epoch, fx, req, ans, usedRefs,
                 payouts, prized, nCrashes, nCycles>>
  /\ UNCHANGED variants

\* (mutant) a ranking that keeps the order of registration
SortByVotesUnsorted(ps, idxs) == idxs

\* [...uploaders].sort((a, b) => b.votes - a.votes): stable, votes descending
RECURSIVE InsertByVotes(_, _, _)
InsertByVotes(ps, s, x) ==
  IF s = <<>> THEN <<x>>
  ELSE IF ps[Head(s)].votes >= ps[x].votes
       THEN <<Head(s)>> \o InsertByVotes(ps, Tail(s), x)
       ELSE <<x>> \o s

RECURSIVE SortByVotes(_, _)
SortByVotes(ps, idxs) ==
  IF idxs = <<>> THEN <<>>
  ELSE InsertByVotes(ps, SortByVotes(ps, SubSeq(idxs, 1, Len(idxs) - 1)), idxs[Len(idxs)])

\* (mutant) a weight vector that sums to more than 1
WeightsOver == <<40, 25, 20, 10, 10>>

\* weights, in percent
Weights == <<40, 25, 20, 10, 5>>

\* Math.floor(treasurySUNO * 0.80)
PrizePool(treasury) == (treasury * 4) \div 5

\* baseAmt of rank i: Math.floor(prizePool * weights[i])
BaseAmt(pool, i) == (pool * Weights[i]) \div 100

\* finalAmt of rank i: Math.floor(baseAmt * w.multiplier)
PrizeAmt(ps, sorted, pool, i) ==
  (BaseAmt(pool, i) * ps[sorted[i]].multiplier) \div RateDen

\* (mutant) a prize loop that sends every amount, zero included
NextPrizeAnyAmount(ps, sorted, pool, j) ==
  LET S == {k \in j..Min(NumPrizes, Len(sorted)) : ps[sorted[k]].wallet # ""}
  IN IF S = {} THEN 0 ELSE CHOOSE k \in S : \A m \in S : k <= m

\* the next rank from j on whose payout is issued (wallet set, amount > 0), 0 if none
NextPrize(ps, sorted, pool, j) ==
  LET S == {k \in j..Min(NumPrizes, Len(sorted)) :
              ps[sorted[k]].wallet # "" /\ PrizeAmt(ps, sorted, pool, k) > 0}
  IN IF S = {} THEN 0 ELSE CHOOSE k \in S : \A m \in S : k <= m

\* (mutant) a reward loop over every voter, whatever entry they voted for
WinnerVotersAll(vs, winnerId) == FilterIdx(vs, LAMBDA v : TRUE, 1)

\* voters.filter(v => v.votedFor === winner.userId)
WinnerVoters(vs, winnerId) == FilterIdx(vs, LAMBDA v : v.votedFor = winnerId, 1)

RECURSIVE SumAmounts(_, _)
SumAmounts(vs, wv) ==
  IF wv = <<>> THEN 0 ELSE vs[Head(wv)].amount + SumAmounts(vs, Tail(wv))

\* Math.floor((v.amount / totalVoterAmount) * voterPool)
Share(vs, wv, pool, k) == (vs[wv[k]].amount * pool) \div SumAmounts(vs, wv)

\* (mutant) a reward loop that pays no voter
NextVoterNone(vs, wv, pool, j) == 0

\* the next winner-voter from j on whose reward is issued (share > 0), 0 if none
NextVoter(vs, wv, pool, j) ==
  LET S == {k \in j..Len(wv) : Share(vs, wv, pool, k) > 0}
  IN IF S = {} THEN 0 ELSE CHOOSE k \in S : \A m \in S : k <= m

\* announceWinners running on from voter j of the reward loop to its next await
ToNextVoter(e, j) ==
  LET k == NextVoter(voters, e.wv, e.voterPool, j)
  IN IF k # 0
     THEN [run |-> [e EXCEPT !.pc = "voter", !.i = k],
           pay |-> <<[kind |-> "voter", to |-> voters[e.wv[k]].userId,
                      amount |-> Share(voters, e.wv, e.voterPool, k),
                      rank |-> 0, slot |-> e.wv[k]]>>]
     ELSE [run |-> [e EXCEPT !.pc = "results", !.i = 0], pay |-> <<>>]

\* announceWinners running on from rank j of the prize loop to its next await
ToNextPrize(e, j) ==
  LET k == NextPrize(participants, e.ups, e.prizePool, j)
      wv == IF e.voterPool > 0
            THEN WinnerVoters(voters, participants[e.ups[1]].userId) ELSE <<>>
  IN IF k # 0
     THEN [run |-> [e EXCEPT !.pc = "prize", !.i = k],
           pay |-> <<[kind |-> "prize", to |-> participants[e.ups[k]].userId,
                      amount |-> PrizeAmt(participants, e.ups, e.prizePool, k),
                      rank |-> k, slot |-> e.ups[k]]>>]
     ELSE ToNextVoter([e EXCEPT !.wv = wv], 1)

\* the slots of the prize transfers among the transfers ps
PrizeSlots(ps) ==
  [j \in DOMAIN SelectSeq(ps, LAMBDA q : q.kind = "prize") |->
     SelectSeq(ps, LAMBDA q : q.kind = "prize")[j].slot]

\* participants = []; voters = []; treasurySUNO = 0; pendingPayments = []; saveState()
ClearLedger ==
  /\ participants' = <<>>
  /\ voters' = <<>>
  /\ treasurySUNO' = 0
  /\ pendingPayments' = <<>>
  /\ epoch' = epoch + 1

\* announceWinners up to its first await (or, with no uploads, to its end)
AnnounceWinners ==
  /\ \E t \in timers :
       /\ t.fn = "announceWinners"
       /\ now' = Max(now, t.due)
       /\ timers' = (timers \ {t}) \cup
            (IF Uploaders(participants) = <<>>
             THEN {Timer("startNewCycle", now', CooldownSecs)} ELSE {})
  /\ phase' = "cooldown"
  /\ UNCHANGED <<transFeeCollected, cycleStartTime, nextPhaseTime>>
  /\ IF Uploaders(participants) = <<>>
     THEN /\ ClearLedger
          /\ prized' = <<>>
          /\ UNCHANGED <<runs, payouts>>
     ELSE LET e == [Run("announceWinners", "prize") EXCEPT
                      !.ups = SortByVotes(participants, Uploaders(participants)),
                      !.prizePool = PrizePool(treasurySUNO),
                      !.voterPool = treasurySUNO - PrizePool(treasurySUNO)]
              nx == ToNextPrize(e, 1)
          IN /\ runs' = runs \cup {nx.run}
             /\ payouts' = payouts \o nx.pay
             /\ prized' = prized \o PrizeSlots(nx.pay)
             /\ UNCHANGED <<treasurySUNO, pendingPayments, participants, voters, epoch>>
  /\ SaveState
  /\ UNCHANGED <<boot, conf, fx, req, ans, usedRefs, chan, nCrashes, nCycles>>
  /\ UNCHANGED variants

\* announceWinners after the payout and DM of rank i, or of winner-voter i
AnnounceWinnersPaid ==
  /\ \E e \in runs :
       /\ e.fn = "announceWinners" /\ e.pc \in {"prize", "voter"}
       /\ LET nx == IF e.pc = "prize" THEN ToNextPrize(e, e.i + 1)
                    ELSE ToNextVoter(e, e.i + 1)
          IN /\ runs' = (runs \ {e}) \cup {nx.run}
             /\ payouts' = payouts \o nx.pay
             /\ prized' = prized \o PrizeSlots(nx.pay)
  /\ UNCHANGED <<state, disk, now, timers, boot, conf, epoch, fx, req, ans,
                 usedRefs, chan, nCrashes, nCycles>>
  /\ UNCHANGED variants

\* announceWinners after the result messages: ledger reset, next cycle scheduled
AnnounceWinnersDone ==
  /\ \E e \in runs :
       /\ e.fn = "announceWinners" /\ e.pc = "results"
       /\ runs' = runs \ {e}
  /\ ClearLedger
  /\ UNCHANGED <<transFeeCollected, phase, cycleStartTime, nextPhaseTime>>
  /\ SaveState
  /\ timers' = timers \cup {Timer("startNewCycle", now, CooldownSecs)}
  /\ prized' = <<>>
  /\ UNCHANGED <<now, boot, conf, ghosts>>
  /\ UNCHANGED variants

\* ------------------------------------------------------ boot and restart
\* (mutant) a boot that always starts a new cycle, whatever phase was persisted
BootTimersNewCycle(ph, cst, npt, t) == {[fn |-> "startNewCycle", due |-> t + BootCycleSecs]}

\* (mutant) a boot that resumes without testing whether the deadline has elapsed
BootTimersNoElapsedTest(ph, cst, npt, t) ==
  IF cst = 0 \/ ph = "cooldown"
  THEN {[fn |-> "startNewCycle", due |-> t + BootCycleSecs]}
  ELSE IF ph = "submission"
  THEN {[fn |-> "startVoting", due |-> cst + SubmissionSecs]}
  ELSE {[fn |-> "announceWinners", due |-> npt]}

\* (mutant) a boot that starts a new cycle and also resumes the persisted phase
BootTimersBoth(ph, cst, npt, t) ==
  {[fn |-> "startNewCycle", due |-> t + BootCycleSecs]} \cup
  (IF ph = "voting" THEN {[fn |-> "announceWinners", due |-> t + BootResumeSecs]}
   ELSE {[fn |-> "startVoting", due |-> t + BootResumeSecs]})

\* the timer the app.listen callback sets, from the loaded state and the time t
BootTimers(ph, cst, npt, t) ==
  IF cst = 0 \/ ph = "cooldown"
  THEN {[fn |-> "startNewCycle", due |-> t + BootCycleSecs]}
  ELSE IF ph = "submission"
  THEN {[fn |-> "startVoting",
         due |-> t + (IF cst + SubmissionSecs - t <= 0 THEN BootResumeSecs
                      ELSE cst + SubmissionSecs - t)]}
  ELSE IF ph = "voting"
  THEN {[fn |-> "announceWinners",
         due |-> t + (IF npt - t <= 0 THEN BootResumeSecs ELSE npt - t)]}
  ELSE {}

\* app.listen callback: loadState()
BootLoad ==
  /\ boot = "load"
  /\ LoadState
  /\ boot' = "webhook"
  /\ UNCHANGED <<disk, now, timers, runs, conf, epoch, ghosts, prized>>
  /\ UNCHANGED variants

\* app.listen callback after the webhook calls: the lifecycle timer
BootSchedule ==
  /\ boot = "webhook"
  /\ now' = now + WebhookSecs
  /\ timers' = timers \cup BootTimers(phase, cycleStartTime, nextPhaseTime, now')
  /\ boot' = "done"
  /\ UNCHANGED <<state, disk, runs, conf, epoch, ghosts, prized>>
  /\ UNCHANGED variants

\* the process dies and is started again d seconds later: timers, suspended handlers
\* and memory are lost, and the new process's app.listen callback runs loadState()
Restart(d) ==
  /\ boot # "load"
  /\ nCrashes < MaxCrashes
  /\ nCrashes' = nCrashes + 1
  /\ LoadState
  /\ now' = now + d
  /\ timers' = {}
  /\ boot' = "webhook"
  /\ runs' = {}
  /\ conf' = [h \in Slots |-> IdleHandler]
  /\ epoch' = 0
  /\ prized' = SelectSeq(prized, LAMBDA s : s <= Len(participants'))
  /\ UNCHANGED <<disk, fx, req, ans, usedRefs, chan, payouts, nCycles>>
  /\ UNCHANGED variants

\* ------------------------------------------- SOL-pot variant (part_002)
\* part_002 holds the variant's module-level state under its own names (submissions,
\* potSOL, pendingPayments, phase), the snapshot file, the message handlers suspended
\* at sendMessage (msgs) and the number of requests delivered (n).

\* saveState of the variant, applied to the new state st
PotSave(st) ==
  [st EXCEPT !.file = <<[submissions |-> st.submissions, potSOL |-> st.potSOL,
                         pendingPayments |-> st.pendingPayments, phase |-> st.phase]>>]

PotUsedRefs ==
  {part_002.pendingPayments[i].reference : i \in DOMAIN part_002.pendingPayments}
    \cup {m.reference : m \in part_002.msgs}

\* Keypair.generate() in the variant
PotFreshRef == CHOOSE r \in PotRefs \ PotUsedRefs : \A q \in PotRefs \ PotUsedRefs : r <= q

PotNewPending(u, r) == [userId |-> u, reference |-> r, confirmed |-> FALSE]

\* bot.on("message") with audio from u, up to the await of sendMessage
PotMessage(u) ==
  /\ part_002.phase = "submission"
  /\ PotRefs \ PotUsedRefs # {}
  /\ LET subs == part_002.submissions
         paidSub == FindFirst(subs, LAMBDA x : x.userId = u /\ x.paid)
         unpaidSub == FindFirst(subs, LAMBDA x : x.userId = u /\ ~x.paid)
     IN /\ paidSub = 0
        /\ IF unpaidSub # 0
           THEN part_002' = [part_002 EXCEPT !.msgs = @ \cup
                    {[userId |-> u, kind |-> "again", reference |-> PotFreshRef]}]
           ELSE part_002' = PotSave([part_002 EXCEPT
                    !.pendingPayments = Append(@, PotNewPending(u, PotFreshRef)),
                    !.msgs = @ \cup
                      {[userId |-> u, kind |-> "new", reference |-> PotFreshRef]}])
  /\ UNCHANGED <<main, part_001>>

\* the same handler after sendMessage
PotMessageSent ==
  /\ \E m \in part_002.msgs :
       IF m.kind = "again"
       THEN part_002' = PotSave([part_002 EXCEPT
                !.pendingPayments = Append(@, PotNewPending(m.userId, m.reference)),
                !.msgs = @ \ {m}])
       ELSE part_002' = PotSave([part_002 EXCEPT
                !.submissions = Append(@, [userId |-> m.userId, paid |-> FALSE,
                                           wallet |-> "", amountPaid |-> 0,
                                           multiplier |-> 100]),
                !.msgs = @ \ {m}])
  /\ UNCHANGED <<main, part_001>>

\* parseFloat(amount) || 0.01
PotAmountNum(a) == IF a = 0 THEN 10 ELSE a

\* the multiplier (in percent) of an amount paid
PotMultiplier(a) == IF a >= 100 THEN 110 ELSE IF a >= 50 THEN 105 ELSE 100

\* sub.paid = true ... if (senderWallet) sub.wallet = senderWallet
PotMarkPaid(sub, a, w) ==
  [sub EXCEPT !.paid = TRUE, !.amountPaid = a, !.multiplier = PotMultiplier(a),
              !.wallet = IF w # "" THEN w ELSE @]

\* POST /confirm-payment of the variant with userId and reference present
PotConfirmPayment(r, u, a, w) ==
  /\ part_002.n < MaxPotDeliveries
  /\ LET pp == part_002.pendingPayments
         e == FindFirst(pp, LAMBDA x : x.reference = r)
         sub == FindFirst(part_002.submissions, LAMBDA x : x.userId = u)
         amountNum == PotAmountNum(a)
     IN IF e # 0 /\ pp[e].confirmed
        THEN part_002' = [part_002 EXCEPT !.n = @ + 1]
        ELSE part_002' = PotSave([part_002 EXCEPT
               !.n = @ + 1,
               !.pendingPayments =
                  IF e # 0 THEN [pp EXCEPT ![e].confirmed = TRUE]
                  ELSE Append(pp, [userId |-> u, reference |-> r, confirmed |-> TRUE]),
               !.potSOL = @ + amountNum,
               !.submissions =
                  IF sub = 0 THEN @
                  ELSE [@ EXCEPT ![sub] = PotMarkPaid(@, amountNum, w)]])
  /\ UNCHANGED <<main, part_001>>

NextPot ==
  \/ \E u \in Users : PotMessage(u)
  \/ PotMessageSent
  \/ \E r \in PotRefs, u \in Users, a \in PotAmounts, w \in PotWallets :
        PotConfirmPayment(r, u, a, w)

\* the SOL-pot variant within one submission phase
SpecPot == Init /\ [][NextPot]_vars

\* --------------------------------------------- token variant (part_001)
\* part_001 holds the variant's module-level state under its own names (treasurySOL,
\* atStakeSOL, tokenHolders, totalTokenSupply, pendingPayments, submissions, phase),
\* the snapshot file, the pending lifecycle timer, the lifecycle functions, message
\* handlers and /confirm-payment handlers suspended at an await (runs, msgs, confs),
\* the number of requests delivered (n) and of cycles started (cycles).
\* SOL amounts of a request are in 0.001 SOL, the accumulators in 0.000001 SOL.
\* Timestamps are left out: only the boot callback reads them.  Votes are left out:
\* they only order the payouts of announceWinners, which change no state.
MaxTokRefs == 2         \* payment references of the token variant
MaxTokDeliveries == 2   \* /confirm-payment requests delivered to the token variant
MaxTokCycles == 2       \* executions of startNewCycle of the token variant

TokRefs == 1..MaxTokRefs
TokAmounts == {0, 100, 200}     \* req.body.amount (0: absent or not a number)

\* saveState of the variant, applied to the new state st
TokSave(st) ==
  [st EXCEPT !.file = <<[submissions |-> st.submissions, phase |-> st.phase,
                         treasurySOL |-> st.treasurySOL, atStakeSOL |-> st.atStakeSOL,
                         pendingPayments |-> st.pendingPayments,
                         tokenHolders |-> st.tokenHolders,
                         totalTokenSupply |-> st.totalTokenSupply]>>]

TokUsedRefs ==
  {part_001.pendingPayments[i].reference : i \in DOMAIN part_001.pendingPayments}

\* Keypair.generate() in the variant
TokFreshRef == CHOOSE r \in TokRefs \ TokUsedRefs : \A q \in TokRefs \ TokUsedRefs : r <= q

\* bot.on("message") with audio from u, up to the await of sendMessage; the handler
\* returns before touching the state outside the submission phase and when u has a
\* paid submission
TokMessage(u) ==
  /\ part_001.phase = "submission"
  /\ FindFirst(part_001.submissions, LAMBDA x : x.userId = u /\ x.paid) = 0
  /\ TokRefs \ TokUsedRefs # {}
  /\ part_001' = TokSave([part_001 EXCEPT
        !.pendingPayments = Append(@, [userId |-> u, reference |-> TokFreshRef,
                                       confirmed |-> FALSE]),
        !.msgs = @ \cup {[userId |-> u, reference |-> TokFreshRef]}])
  /\ UNCHANGED <<main, part_002>>

\* the entry the message handler pushes: paid false, wallet null, multiplier 1
\* (born: the cycle in which it was pushed)
TokNewEntry(u, cycle) ==
  [userId |-> u, paid |-> FALSE, wallet |-> "", amountPaid |-> 0,
   tokensPurchased |-> 0, tier |-> "", multiplier |-> 100, born |-> cycle]

\* the same handler after sendMessage (ok: it did not throw)
TokMessageSent(ok) ==
  /\ \E m \in part_001.msgs :
       IF ok
       THEN part_001' = TokSave([part_001 EXCEPT
                !.submissions = Append(@, TokNewEntry(m.userId, part_001.cycles)),
                !.msgs = @ \ {m}])
       ELSE part_001' = [part_001 EXCEPT !.msgs = @ \ {m}]
  /\ UNCHANGED <<main, part_002>>

\* parseFloat(amount) || 0.02
TokAmountNum(a) == IF a = 0 THEN 20 ELSE a

\* POST /confirm-payment of the variant with userId, reference and senderWallet
\* present, up to the await of calculateTokenAmount
TokConfirmPayment(r, u, a, w) ==
  /\ part_001.n < MaxTokDeliveries
  /\ LET pp == part_001.pendingPayments
         e == FindFirst(pp, LAMBDA x : x.reference = r)
     IN IF e # 0 /\ pp[e].confirmed
        THEN part_001' = [part_001 EXCEPT !.n = @ + 1]
        ELSE part_001' = [part_001 EXCEPT
               !.n = @ + 1,
               !.pendingPayments =
                  IF e # 0 THEN [pp EXCEPT ![e].confirmed = TRUE]
                  ELSE Append(pp, [userId |-> u, reference |-> r, confirmed |-> TRUE]),
               !.confs = @ \cup {[reference |-> r, userId |-> u,
                                   amount |-> TokAmountNum(a), wallet |-> w]}]
  /\ UNCHANGED <<main, part_002>>

\* calculateTokenAmount at the fallback price of 0.0001 SOL per token:
\* floor(amount * 0.50 / price * bonus), bonus 1.20 from 0.20 SOL, 1.10 from 0.10 SOL
TokTokenAmount(a) ==
  IF a >= 200 THEN (5 * a * 12) \div 10
  ELSE IF a >= 100 THEN (5 * a * 11) \div 10
  ELSE 5 * a

\* the tier and multiplier (in percent) of an amount paid
TokTier(a) == IF a >= 200 THEN "Patron" ELSE IF a >= 100 THEN "Supporter" ELSE "Basic"
TokMultiplier(a) == IF a >= 200 THEN 110 ELSE IF a >= 100 THEN 105 ELSE 100

\* sub.paid = true; sub.amountPaid = ...; sub.wallet = senderWallet; tier
TokMarkPaid(sub, a, w) ==
  [sub EXCEPT !.paid = TRUE, !.amountPaid = a, !.tokensPurchased = TokTokenAmount(a),
              !.wallet = w, !.tier = TokTier(a), !.multiplier = TokMultiplier(a)]

\* the same handler after sendTokens (sent: it did not throw): token holdings,
\* the split of the payment, the submission of the payer, saveState
TokConfirmPaid(sent) ==
  /\ \E c \in part_001.confs :
       LET sub == FindFirst(part_001.submissions, LAMBDA x : x.userId = c.userId)
           tokens == TokTokenAmount(c.amount)
       IN part_001' = TokSave([part_001 EXCEPT
             !.confs = @ \ {c},
             !.tokenHolders = IF sent THEN [@ EXCEPT ![c.wallet] = @ + tokens] ELSE @,
             !.totalTokenSupply = IF sent THEN @ + tokens ELSE @,
             !.treasurySOL = @ + 500 * c.amount + 175 * c.amount,
             !.atStakeSOL = @ + 325 * c.amount,
             !.submissions =
                IF sub = 0 THEN @
                ELSE [@ EXCEPT ![sub] = TokMarkPaid(@, c.amount, c.wallet)]])
  /\ UNCHANGED <<main, part_002>>

\* startNewCycle: phase, saveState, the two announcements, setTimeout(startVoting)
TokStartNewCycle ==
  /\ part_001.timer = "startNewCycle"
  /\ part_001.cycles < MaxTokCycles
  /\ part_001' = TokSave([part_001 EXCEPT
        !.phase = "submission", !.cycles = @ + 1, !.timer = "startVoting"])
  /\ UNCHANGED <<main, part_002>>

\* startVoting up to its first await
TokStartVoting ==
  /\ part_001.timer = "startVoting"
  /\ IF FindFirst(part_001.submissions, LAMBDA x : x.paid) = 0
     THEN part_001' = [part_001 EXCEPT !.timer = "none", !.runs = @ \cup {"noentries"}]
     ELSE part_001' = TokSave([part_001 EXCEPT
             !.phase = "voting", !.timer = "announceWinners"])
  /\ UNCHANGED <<main, part_002>>

\* startVoting, no paid submissions, after the "No entries" message
TokStartVotingNoEntries ==
  /\ "noentries" \in part_001.runs
  /\ part_001' = TokSave([part_001 EXCEPT
        !.phase = "cooldown", !.runs = @ \ {"noentries"}, !.timer = "startNewCycle"])
  /\ UNCHANGED <<main, part_002>>

\* announceWinners up to its first await (or, with no paid submissions, to its end)
TokAnnounceWinners ==
  /\ part_001.timer = "announceWinners"
  /\ IF FindFirst(part_001.submissions, LAMBDA x : x.paid) = 0
     THEN part_001' = TokSave([part_001 EXCEPT
             !.phase = "cooldown", !.timer = "startNewCycle"])
     ELSE part_001' = TokSave([part_001 EXCEPT
             !.phase = "cooldown", !.timer = "none", !.runs = @ \cup {"payouts"}])
  /\ UNCHANGED <<main, part_002>>

\* announceWinners after the payouts and the announcement: the reset
TokAnnounceWinnersDone ==
  /\ "payouts" \in part_001.runs
  /\ part_001' = TokSave([part_001 EXCEPT
        !.submissions = <<>>, !.atStakeSOL = 0, !.pendingPayments = <<>>,
        !.runs = @ \ {"payouts"}, !.timer = "startNewCycle"])
  /\ UNCHANGED <<main, part_002>>

NextTok ==
  \/ \E u \in Payers : TokMessage(u)
  \/ \E ok \in BOOLEAN : TokMessageSent(ok)
  \/ \E r \in TokRefs, u \in Payers, a \in TokAmounts, w \in TokWallets :
        TokConfirmPayment(r, u, a, w)
  \/ \E sent \in BOOLEAN : TokConfirmPaid(sent)
  \/ TokStartNewCycle
  \/ TokStartVoting
  \/ TokStartVotingNoEntries
  \/ TokAnnounceWinners
  \/ TokAnnounceWinnersDone

\* the token variant, never restarted
SpecTok == Init /\ [][NextTok]_vars

\* ----------------------------------------------------------------- Next
\* a /confirm-payment request that passes validation, at most n in a run
\* (R: the references, P: the identities the requests can name)
DeliverFrom(n, R, P) ==
  /\ req.n < n
  /\ \E r \in R, u \in P, a \in Amounts, w \in Wallets :
        ConfirmPayment(r, u, Numeric(a), w)

Deliver(n) == DeliverFrom(n, Refs, Payers)

Handlers ==
  \/ BootLoad
  \/ BootSchedule
  \/ \E u \in Payers, c \in {"upload", "vote"} : StartChoice(u, c)
  \/ \E u \in Payers : Audio(u)
  \/ \E v \in Users, t \in Users : Vote(v, t)
  \/ \E h \in Slots : ConfirmFeeDone(h)
  \/ \E h \in Slots, t \in BuyResults : ConfirmBuyDone(h, t)
  \/ \E h \in Slots : ConfirmFailNotified(h)
  \/ \E h \in Slots, ok \in BOOLEAN : ConfirmTransferDone(h, ok)
  \/ \E h \in Slots : ConfirmDmDone(h)
  \/ StartNewCycle
  \/ StartNewCycleDone
  \/ StartVoting
  \/ StartVotingNoEntries
  \/ \E k \in 0..Len(participants) : StartVotingPosted(k)
  \/ AnnounceWinners
  \/ AnnounceWinnersPaid
  \/ AnnounceWinnersDone

Next ==
  \/ Handlers
  \/ Deliver(MaxRestartDeliveries)
  \/ \E d \in DownTimes : Restart(d)

NextRun ==
  \/ Handlers
  \/ Deliver(MaxDeliveries)

\* every execution, restarts included
Spec == Init /\ [][Next]_vars

\* the executions of one process that is never restarted
SpecRun == Init /\ [][NextRun]_vars

\* no /confirm-payment handler is in progress
Quiet == \A h \in Slots : conf[h].pc = "idle"

\* the payment page reports the payment of a pending record, with the identity that
\* made the choice, in the submission phase and while no other confirmation is in progress
DeliverPending(n) ==
  /\ req.n < n
  /\ Quiet
  /\ phase = "submission"
  /\ \E i \in DOMAIN pendingPayments, a \in Amounts, w \in Wallets :
        /\ ~pendingPayments[i].confirmed
        /\ ConfirmPayment(pendingPayments[i].reference, pendingPayments[i].userId,
                          Numeric(a), w)

\* request bodies of any shape; "zz" is a senderWallet that is not an address
RawRefs == {0, 1}
RawUsers == {"", "u1"}
RawWallets == {"", "zz"} \cup Wallets
RawAmounts == {Absent, Numeric(0), Numeric(600), [lead |-> 600, junk |-> TRUE],
               Numeric(MaxAmount + 1)}

DeliverRaw(n) ==
  /\ req.n < n
  /\ \E r \in RawRefs, u \in RawUsers, a \in RawAmounts, w \in RawWallets :
        ConfirmPayment(r, u, a, w)

\* the /confirm-payment endpoint alone, fed with arbitrary bodies
NextRaw ==
  \/ BootLoad
  \/ BootSchedule
  \/ DeliverRaw(MaxRawDeliveries)
  \/ \E h \in Slots : ConfirmFeeDone(h)
  \/ \E h \in Slots, t \in BuyResults : ConfirmBuyDone(h, t)
  \/ \E h \in Slots : ConfirmFailNotified(h)
  \/ \E h \in Slots, ok \in BOOLEAN : ConfirmTransferDone(h, ok)
  \/ \E h \in Slots : ConfirmDmDone(h)

SpecRaw == Init /\ [][NextRaw]_vars

\* one process never restarted, whose timers fire and whose external calls return
SpecRunFair ==
  /\ SpecRun
  /\ WF_vars(AnnounceWinnersPaid)
  /\ WF_vars(AnnounceWinnersDone)
  /\ WF_vars(StartNewCycle)

\* one process followed up to its first voting phase, both identities paying, every
\* external call succeeding and each confirmation finishing before the next event
NextBallot ==
  \/ BootLoad
  \/ BootSchedule
  \/ Quiet /\ \E u \in Users, c \in {"upload", "vote"} : StartChoiceIn(u, c, BallotRefs)
  \/ Quiet /\ \E u \in Users : Audio(u)
  \/ Quiet /\ \E v \in Users, t \in Users : Vote(v, t)
  \/ DeliverPending(MaxBallotDeliveries)
  \/ \E h \in Slots : ConfirmFeeDone(h)
  \/ \E h \in Slots : ConfirmBuyDone(h, 1000)
  \/ \E h \in Slots : ConfirmTransferDone(h, TRUE)
  \/ \E h \in Slots : ConfirmDmDone(h)
  \/ StartNewCycle
  \/ StartNewCycleDone
  \/ StartVoting
  \/ \E k \in 0..Len(participants) : StartVotingPosted(k)

SpecBallot == Init /\ [][NextBallot]_vars

\* --------------------------------------------- requests of any identity
MaxBindDeliveries == 2     \* /confirm-payment requests delivered

\* start_ callbacks and audio of every user, and requests that name any user with any
\* reference; every external call of a handler succeeds
NextBind ==
  \/ BootLoad
  \/ BootSchedule
  \/ \E u \in Users, c \in {"upload", "vote"} : StartChoice(u, c)
  \/ \E u \in Users : Audio(u)
  \/ DeliverFrom(MaxBindDeliveries, Refs, Users)
  \/ \E h \in Slots : ConfirmFeeDone(h)
  \/ \E h \in Slots : ConfirmBuyDone(h, 1000)
  \/ \E h \in Slots : ConfirmTransferDone(h, TRUE)
  \/ \E h \in Slots : ConfirmDmDone(h)

SpecBind == Init /\ [][NextBind]_vars

\* ------------------------------------------------------ the payment split
MaxSplitDeliveries == 2    \* /confirm-payment requests delivered one after the other

\* accepted amounts (0.001 SOL): the validation bounds, each tier boundary with the
\* amount just below it, and amounts inside each tier
TierAmounts == {1, 10, 49, 50, 99, 100, 499, 500, 600, 2750, 4999, 5000, 100000}

\* tokens returned by the market buy (0: failed)
SplitTotals == {0, 1, 3, 10, 1000, 12345}

\* a valid request of any accepted amount, while no other confirmation is in progress
DeliverSplit(n) ==
  /\ req.n < n
  /\ Quiet
  /\ \E r \in Refs, u \in Payers, a \in TierAmounts, w \in Wallets :
        ConfirmPayment(r, u, Numeric(a), w)

NextSplit ==
  \/ BootLoad
  \/ BootSchedule
  \/ DeliverSplit(MaxSplitDeliveries)
  \/ \E h \in Slots : ConfirmFeeDone(h)
  \/ \E h \in Slots, t \in SplitTotals : ConfirmBuyDone(h, t)
  \/ \E h \in Slots : ConfirmFailNotified(h)
  \/ \E h \in Slots, ok \in BOOLEAN : ConfirmTransferDone(h, ok)
  \/ \E h \in Slots : ConfirmDmDone(h)

\* the /confirm-payment endpoint alone, over the accepted amounts and purchase results
SpecSplit == Init /\ [][NextSplit]_vars

\* ------------------------------------------------- the end of a round
\* announceWinners alone, started on each ledger a voting phase can end with: n paid
\* upload entries and the paid voters, each voter having voted for at most one entry.
MaxEntries == 6      \* paid upload entries in the ledger
MaxBackers == 3      \* paid voters in the ledger

\* tokens bought by each payment of the round
PrizeTotals == {1, 2, 3, 7, 10, 100, 1000, 12345}

\* the amounts paid (0.001 SOL) by the i-th entrant and by the k-th voter: every tier,
\* and the Whale tier below, inside and at the end of its interpolation
EntrantAmounts == <<10, 600, 50, 5000, 100, 2750>>
BackerAmounts == <<10, 50, 600>>
EntrantAmount(i) == EntrantAmounts[((i - 1) % Len(EntrantAmounts)) + 1]
BackerAmount(k) == BackerAmounts[((k - 1) % Len(BackerAmounts)) + 1]
EntrantId(i) == "u" \o ToString(i)
BackerId(k) == "v" \o ToString(k)

\* userData of a payment of amount a by u that bought tot tokens
PaidData(u, a, tot) ==
  [userId |-> u, wallet |-> "w1", amount |-> a, sunoReceived |-> UserSUNO(tot, a),
   tier |-> getTier(a), multiplier |-> Multiplier(a), paid |-> TRUE]

\* the voters (by index) whose vote went to entry i, in the order they voted
BackersOf(b, i) == SelectSeq([k \in 1..MaxBackers |-> k], LAMBDA k : b[k] = i)

\* the i-th entry of the ledger, with the votes cast by b
PrizeEntry(i, tot, b) ==
  [EntryRec(PaidData(EntrantId(i), EntrantAmount(i), tot),
            [user |-> EntrantId(i), track |-> EntrantId(i)])
     EXCEPT !.votes = Len(BackersOf(b, i)),
            !.voters = [j \in 1..Len(BackersOf(b, i)) |-> BackerId(BackersOf(b, i)[j])]]

\* the k-th voter record, with votedFor as set by the vote handler
PrizeBacker(k, tot, b) ==
  [VoterRec(PaidData(BackerId(k), BackerAmount(k), tot))
     EXCEPT !.votedFor = IF b[k] = 0 THEN "" ELSE EntrantId(b[k])]

\* the pending payments of the ledger: one per record, confirmed and paid
PrizePending(n) ==
  [r \in 1..(n + MaxBackers) |->
     IF r <= n
     THEN [userId |-> EntrantId(r), reference |-> r, confirmed |-> TRUE,
           choice |-> "upload", paid |-> TRUE, track |-> EntrantId(r),
           user |-> EntrantId(r)]
     ELSE [userId |-> BackerId(r - n), reference |-> r, confirmed |-> TRUE,
           choice |-> "vote", paid |-> TRUE, track |-> "", user |-> ""]]

\* the competition shares of the records: totalSUNO - userSUNO each
RECURSIVE PoolOf(_, _)
PoolOf(recs, tot) ==
  IF recs = <<>> THEN 0 ELSE (tot - Head(recs).sunoReceived) + PoolOf(Tail(recs), tot)

\* a process in its first voting phase, the announceWinners timer pending
InitPrize ==
  \E n \in 0..MaxEntries, b \in [1..MaxBackers -> 0..MaxEntries], tot \in PrizeTotals :
    /\ \A k \in 1..MaxBackers : b[k] <= n
    /\ participants = [i \in 1..n |-> PrizeEntry(i, tot, b)]
    /\ voters = [k \in 1..MaxBackers |-> PrizeBacker(k, tot, b)]
    /\ pendingPayments = PrizePending(n)
    /\ treasurySUNO = PoolOf(participants, tot) + PoolOf(voters, tot)
    /\ transFeeCollected = 0
    /\ phase = "voting"
    /\ cycleStartTime = 1 + WebhookSecs + BootCycleSecs
    /\ nextPhaseTime = cycleStartTime + SubmissionSecs + VotingSecs
    /\ now = cycleStartTime + SubmissionSecs
    /\ disk = <<Snapshot(participants, voters, phase, cycleStartTime, nextPhaseTime,
                         treasurySUNO, transFeeCollected, pendingPayments)>>
    /\ timers = {Timer("announceWinners", now, VotingSecs)}
    /\ boot = "done"
    /\ runs = {}
    /\ conf = [h \in Slots |-> IdleHandler]
    /\ epoch = 0
    /\ fx = [r \in Refs \cup BallotRefs |-> NoFx]
    /\ req = [n |-> 0, ref |-> 0, dup |-> FALSE, status |-> 0, body |-> NoBody]
    /\ ans = "none"
    /\ usedRefs = 1..(n + MaxBackers)
    /\ chan = [started |-> TRUE, tracks |-> {EntrantId(i) : i \in 1..n},
               slots |-> 1..n]
    /\ payouts = <<>>
    /\ prized = <<>>
    /\ nCrashes = 0
    /\ nCycles = 1
    /\ part_002 = PotInitial
    /\ part_001 = TokInitial

NextPrizes ==
  \/ AnnounceWinners
  \/ AnnounceWinnersPaid
  \/ AnnounceWinnersDone

SpecPrize == InitPrize /\ [][NextPrizes]_vars

\* ================================================================ claims
Phases == {"submission", "voting", "cooldown"}

\* the record of reference r, if any, has confirmed = true
ConfirmedRef(r) ==
  \E i \in DOMAIN pendingPayments :
     pendingPayments[i].reference = r /\ pendingPayments[i].confirmed

\* C1: a validated /confirm-payment request whose reference has a record with
\* confirmed = true is answered "Already processed" ({ok:true}) and changes neither
\* participants, voters, treasurySUNO, transFeeCollected nor pendingPayments, starts no
\* handler and issues no fee transfer, purchase or token transfer.
C1_DuplicateIsNoOp ==
  [][(req'.n = req.n + 1 /\ ConfirmedRef(req'.ref))
       => /\ req'.dup
          /\ UNCHANGED <<participants, voters, treasurySUNO, transFeeCollected,
                         pendingPayments>>
          /\ fx' = fx
          /\ conf' = conf]_vars

\* a second delivery of a reference was answered "Already processed" after the first
\* one was processed
C1_Witness == req.n = 2 /\ req.dup /\ fx[req.ref].fee = 1

\* C2: for every reference, whatever round transitions happen between deliveries, the
\* first-time side effects (fee transfer, token purchase, treasury credit,
\* registration) are applied at most once.
C2_EffectsAtMostOnce ==
  \A r \in Refs : fx[r].fee <= 1 /\ fx[r].buy <= 1 /\ fx[r].credit <= 1 /\ fx[r].reg <= 1

\* C3: two /confirm-payment handlers for the same reference are never both past the
\* duplicate check at once.
C3_OneHandlerPerReference ==
  \A h, g \in Slots :
     (h # g /\ conf[h].pc # "idle" /\ conf[g].pc # "idle")
        => conf[h].reference # conf[g].reference

\* C4: phase is always one of submission, voting, cooldown, and every change of phase,
\* across restarts too, is submission->voting, submission->cooldown, voting->cooldown
\* or cooldown->submission.
C4_PhaseForward ==
  [][/\ phase \in Phases
     /\ phase' \in Phases
     /\ phase' # phase =>
          <<phase, phase'>> \in {<<"submission", "voting">>, <<"submission", "cooldown">>,
                                 <<"voting", "cooldown">>, <<"cooldown", "submission">>}]_vars

\* after a restart, a round went through voting into cooldown and on to the next
\* submission phase
C4_Witness ==
  /\ nCrashes = 1 /\ nCycles = 2 /\ phase = "submission"
  /\ disk # <<>> /\ boot = "done" /\ participants = <<>> /\ fx[1].reg = 1

\* C5: the boot callback leaves exactly one lifecycle timer and nothing else pending:
\* startNewCycle (after 3 s) when cycleStartTime is missing or phase is cooldown,
\* startVoting when phase is submission, announceWinners when phase is voting; the
\* latter two at the persisted deadline, or after 1 s when it has elapsed.
C5_BootSchedulesOne ==
  [][(boot = "webhook" /\ boot' = "done") =>
       /\ runs' = {}
       /\ timers' =
            {IF cycleStartTime = 0 \/ phase = "cooldown"
             THEN [fn |-> "startNewCycle", due |-> now' + BootCycleSecs]
             ELSE IF phase = "submission"
             THEN [fn |-> "startVoting",
                   due |-> IF cycleStartTime + SubmissionSecs <= now'
                           THEN now' + BootResumeSecs
                           ELSE cycleStartTime + SubmissionSecs]
             ELSE [fn |-> "announceWinners",
                   due |-> IF nextPhaseTime <= now' THEN now' + BootResumeSecs
                           ELSE nextPhaseTime]}]_vars

\* a process restarted in the voting phase after the deadline: announceWinners in 1 s
C5_Witness ==
  /\ nCrashes = 1 /\ boot = "done" /\ phase = "voting" /\ nextPhaseTime < now
  /\ timers = {[fn |-> "announceWinners", due |-> now + BootResumeSecs]}

NoPaidUpload ==
  \A i \in DOMAIN participants :
     ~(participants[i].choice = "upload" /\ participants[i].paid)

SkipRuns == {e \in runs : e.fn = "startVoting" /\ e.pc = "noentries"}

\* C6: when startVoting runs and there is no paid upload, phase stays submission
\* while the "No entries" message is sent and then becomes cooldown, no "VOTING
\* STARTED" message or track is posted, announceWinners is not scheduled and
\* startNewCycle is scheduled (60 s).
C6_SkipEdge ==
  [][/\ ((\E t \in timers : t.fn = "startVoting" /\ t \notin timers')
           /\ nCrashes' = nCrashes /\ NoPaidUpload)
          => (phase' = phase /\ SkipRuns' # {} /\ timers' = {} /\ chan' = chan)
     /\ SkipRuns # {} => (phase = "submission" /\ ~chan.started /\ timers = {})
     /\ (SkipRuns # {} /\ SkipRuns' = {} /\ nCrashes' = nCrashes)
          => /\ phase' = "cooldown"
             /\ timers' = {[fn |-> "startNewCycle", due |-> now + CooldownSecs]}
             /\ runs' = {}
             /\ chan' = chan]_vars

\* cooldown entered by the skip edge: nothing was posted, the next cycle is scheduled
C6_Witness ==
  /\ nCrashes = 0 /\ phase = "cooldown" /\ ~chan.started /\ chan.tracks = {}
  /\ \E t \in timers : t.fn = "startNewCycle"

\* C7: whenever startNewCycle begins a submission phase after a cooldown, participants
\* and voters are empty and treasurySUNO is 0; and entries or voters are removed
\* nowhere else than in cooldown.
C7_CycleStartsCleared ==
  [][/\ (nCycles' = nCycles + 1 /\ phase = "cooldown")
          => (participants' = <<>> /\ voters' = <<>> /\ treasurySUNO' = 0)
     /\ ((Len(participants') < Len(participants) \/ Len(voters') < Len(voters))
           /\ nCrashes' = nCrashes)
          => phase' = "cooldown"]_vars

\* C8: while phase is voting or cooldown no operation appends to participants.
C8_NoEntryOutsideSubmission ==
  [][(phase \in {"voting", "cooldown"} /\ nCrashes' = nCrashes)
       => Len(participants') <= Len(participants)]_vars

\* C9: participants holds at most one entry per userId.
C9_OneEntryPerUser ==
  \A i, j \in DOMAIN participants :
     i # j => participants[i].userId # participants[j].userId

VotesMatchVoters(ps) ==
  \A i \in DOMAIN ps :
     /\ ps[i].votes = Len(ps[i].voters)
     /\ \A a, b \in DOMAIN ps[i].voters : a # b => ps[i].voters[a] # ps[i].voters[b]

\* C10: every entry's voters holds no identity twice and votes is its length; a vote
\* callback answered "Already voted" changes neither participants nor voters.
C10_VotesMatchVoters ==
  [][/\ VotesMatchVoters(participants)
     /\ VotesMatchVoters(participants')
     /\ (ans' = "Already voted" /\ ans # "Already voted")
          => (participants' = participants /\ voters' = voters)]_vars

\* an entry with both identities recorded, and a repeated vote answered "Already voted"
C10_Witness ==
  /\ ans = "Already voted"
  /\ \E i \in DOMAIN participants : participants[i].votes = 2

\* C11: during the voting phase a voter record whose votedFor is set keeps that value:
\* a later vote of the same voter for another entry is rejected.
C11_FirstVoteWins ==
  [][(phase = "voting" /\ phase' = "voting" /\ nCrashes' = nCrashes)
       => \A i \in DOMAIN voters :
            (i \in DOMAIN voters' /\ voters'[i].userId = voters[i].userId
               /\ voters[i].votedFor # "")
              => voters'[i].votedFor = voters[i].votedFor]_vars

\* C12: in the SOL-pot variant every submission with paid = true has a wallet.
C12_PaidHasWallet ==
  \A i \in DOMAIN part_002.submissions :
     part_002.submissions[i].paid => part_002.submissions[i].wallet # ""

\* handler h leaves program point pc in this step (not by a restart)
Leaves(h, pc) == conf[h].pc = pc /\ conf'[h].pc # pc /\ nCrashes' = nCrashes

LedgerSize == Len(participants) + Len(voters)

C14_PurchaseFailureReported ==
  [][\A h \in Slots :
       /\ Leaves(h, "buy") =>
            \/ conf'[h].pc = "transfer" /\ conf'[h].totalSUNO > 0
            \/ conf'[h].pc = "faildm" /\ conf'[h].totalSUNO = 0 /\ fx' = fx
       /\ conf[h].pc \in {"transfer", "dm"} => conf[h].totalSUNO > 0
       /\ (conf[h].pc = "faildm" /\ conf[h].totalSUNO = 0 /\ nCrashes' = nCrashes)
            => /\ conf'[h].pc \in {"faildm", "idle"}
               /\ fx'[conf[h].reference].reg = fx[conf[h].reference].reg
               /\ fx'[conf[h].reference].xfer = fx[conf[h].reference].xfer]_vars

\* a handler whose purchase failed is about to send the failure DM
C14_Witness ==
  \E h \in Slots :
     /\ conf[h].pc = "faildm" /\ conf[h].totalSUNO = 0
     /\ fx[conf[h].reference].buy = 1 /\ fx[conf[h].reference].reg = 0

\* the transfers announceWinners owes when it reaches its result messages: one per
\* rank with a wallet and a positive prize, one per winner-voter with a positive share
OwedTransfers(e) ==
  Cardinality({k \in 1..Min(NumPrizes, Len(e.ups)) :
                 /\ participants[e.ups[k]].wallet # ""
                 /\ PrizeAmt(participants, e.ups, e.prizePool, k) > 0})
    + Cardinality({k \in 1..Len(e.wv) : Share(voters, e.wv, e.voterPool, k) > 0})

\* C15: once announceWinners has started, whatever the outcome of its transfers and
\* messages, every transfer it owes is issued exactly once, its last step resets the
\* ledger and schedules startNewCycle (60 s), and phase becomes submission again
\* (timers fire, external calls return, no restart).
C15_RoundAlwaysEnds ==
  /\ [][\A e \in runs :
          (e.fn = "announceWinners" /\ e.pc = "results" /\ e \notin runs')
             => /\ Len(payouts) = OwedTransfers(e)
                /\ participants' = <<>> /\ voters' = <<>> /\ treasurySUNO' = 0
                /\ pendingPayments' = <<>>
                /\ timers' = {[fn |-> "startNewCycle", due |-> now + CooldownSecs]}]_vars
  /\ [][\A e \in runs :
          (e.fn = "announceWinners" /\ e \in runs') => payouts' = payouts]_vars
  /\ (phase = "cooldown" /\ chan.started /\ nCycles < MaxCycles) ~> (phase = "submission")

\* announceWinners paid a prize and a voter reward and is about to post the results
C15_Witness ==
  /\ \E e \in runs : e.fn = "announceWinners" /\ e.pc = "results"
  /\ \E i, j \in DOMAIN payouts : payouts[i].kind = "prize" /\ payouts[j].kind = "voter"

\* the amount received is a number (and nothing else) between 0.001 and 100 SOL
IsAmount(raw) ==
  raw.lead # NaN /\ ~raw.junk /\ raw.lead >= MinAmount /\ raw.lead <= MaxAmount

\* C16: a /confirm-payment request that lacks userId, reference or senderWallet, whose
\* amount is not a number in [0.001, 100] or whose senderWallet is not an address is
\* answered 400, changes no ledger variable, starts no handler and issues no transfer
\* or purchase.
C16_InvalidRejected ==
  [][(/\ req'.n = req.n + 1
      /\ \/ req'.body.userId = "" \/ req'.body.reference = 0
         \/ req'.body.senderWallet = ""
         \/ ~IsAmount(req'.body.amount)
         \/ req'.body.senderWallet \notin Wallets)
       => /\ req'.status = 400
          /\ UNCHANGED <<pendingPayments, participants, voters, treasurySUNO,
                         transFeeCollected>>
          /\ conf' = conf
          /\ fx' = fx]_vars

\* the tokens a successful purchase returns
TokensBought == CHOOSE t \in BuyResults : t > 0

RECURSIVE PoolShares(_)
PoolShares(recs) ==
  IF recs = <<>> THEN 0
  ELSE (TokensBought - Head(recs).sunoReceived) + PoolShares(Tail(recs))

RECURSIVE Registrations(_)
Registrations(n) == IF n = 0 THEN 0 ELSE fx[n].reg + Registrations(n - 1)

\* C17: as long as no round has ended (no ledger reset), however the handlers of
\* distinct references interleave, every registered reference has exactly one record
\* in participants or voters and treasurySUNO is the sum of the pool shares of these
\* records: no registration and no credit is lost.
C17_NoLostUpdate ==
  epoch = 0 =>
    /\ \A r \in Refs : fx[r].reg <= 1 /\ fx[r].credit = fx[r].reg
    /\ Len(participants) + Len(voters) = Registrations(MaxRefs)
    /\ treasurySUNO = PoolShares(participants) + PoolShares(voters)

\* two handlers of distinct references in flight at once, both past the registration
C17_Witness ==
  /\ epoch = 0
  /\ \E h, g \in Slots :
       /\ h # g /\ conf[h].pc = "dm" /\ conf[g].pc = "dm"
       /\ conf[h].reference # conf[g].reference
  /\ treasurySUNO = 2 * (TokensBought - UserSUNO(TokensBought, 600))

\* C18: each step gates on what the previous step stored: an entry is appended to
\* participants only by a handler whose reference has a pending payment with choice
\* "upload" that already stores a track; a track is attached only to a pending
\* payment with choice "upload" that is not paid; votedFor is set only on a record
\* that is already in voters.
C18_StepsGated ==
  [][/\ Len(participants') > Len(participants) =>
          /\ Len(participants') = Len(participants) + 1
          /\ participants'[Len(participants')].track # ""
          /\ \E h \in Slots, i \in DOMAIN pendingPayments :
                /\ conf[h].pc = "transfer" /\ conf'[h].pc = "dm"
                /\ pendingPayments[i].reference = conf[h].reference
                /\ pendingPayments[i].choice = "upload"
                /\ pendingPayments[i].track # ""
                /\ participants'[Len(participants')].track = pendingPayments[i].track
     /\ \A i \in DOMAIN pendingPayments :
          (i \in DOMAIN pendingPayments'
             /\ pendingPayments'[i].track # pendingPayments[i].track)
            => (pendingPayments[i].choice = "upload" /\ ~pendingPayments[i].paid)
     /\ \A i \in DOMAIN voters' :
          IF i \in DOMAIN voters
          THEN voters'[i].votedFor # voters[i].votedFor =>
                  /\ voters'[i].userId = voters[i].userId
                  /\ \E j \in DOMAIN participants :
                        participants[j].userId = voters'[i].votedFor
          ELSE voters'[i].votedFor = ""]_vars

\* submit, pay, vote: an entry with its track, and a registered voter who has voted
C18_Witness ==
  /\ \E i \in DOMAIN participants : participants[i].track # ""
  /\ \E i \in DOMAIN voters : voters[i].votedFor # ""
  /\ \E i \in DOMAIN pendingPayments :
        pendingPayments[i].choice = "upload" /\ pendingPayments[i].track # ""

\* the module-level state as one record
Memory ==
  Snapshot(participants, voters, phase, cycleStartTime, nextPhaseTime, treasurySUNO,
           transFeeCollected, pendingPayments)

C20_SnapshotCurrent == Loaded = Memory

\* ---------------------------------------------------- payouts (C21..C24)
\* the execution of announceWinners in progress, if any
Announcing == {e \in runs : e.fn = "announceWinners"}

\* numWinners = Math.min(5, sorted.length)
NumWinners(e) == Min(NumPrizes, Len(e.ups))

RECURSIVE SumBase(_, _)
SumBase(pool, n) == IF n = 0 THEN 0 ELSE BaseAmt(pool, n) + SumBase(pool, n - 1)

\* C21: in announceWinners, for every treasurySUNO >= 0 and every number of winners
\* 1..5, the base amounts floor(prizePool * weights[i]) of the ranks sum to at most
\* prizePool, and prizePool + voterPool = treasurySUNO.
C21_BasePrizesWithinPool ==
  \A e \in Announcing :
     /\ \A n \in 1..NumPrizes : SumBase(e.prizePool, n) <= e.prizePool
     /\ e.prizePool >= 0 /\ e.voterPool >= 0
     /\ e.prizePool + e.voterPool = treasurySUNO

\* five winners, and base amounts that lose part of the pool to the floors
C21_Witness ==
  \E e \in Announcing :
     /\ NumWinners(e) = NumPrizes
     /\ BaseAmt(e.prizePool, NumPrizes) > 0
     /\ SumBase(e.prizePool, NumPrizes) < e.prizePool

\* the prize transfers issued so far, in the order they were issued
Prizes == SelectSeq(payouts, LAMBDA p : p.kind = "prize")

\* C22: in announceWinners, with n paid upload entries, exactly the entries at ranks
\* 1..min(5, n) are considered for a prize; the prize of rank i is
\* floor(floor(prizePool * weights[i]) * the entry's stored multiplier); it is sent only
\* when the entry has a wallet and the amount is positive (and then it is sent, once);
\* entries ranked below 5 receive no prize.
C22_TopRanksPaid ==
  \A e \in Announcing :
     LET entry(r) == participants[e.ups[r]]
         amt(r) == (((e.prizePool * Weights[r]) \div 100) * entry(r).multiplier) \div RateDen
         due(r) == entry(r).wallet # "" /\ amt(r) > 0
         reached(r) == e.pc # "prize" \/ r <= e.i
     IN /\ \A j \in DOMAIN Prizes :
             /\ Prizes[j].rank \in 1..Min(5, Len(e.ups))
             /\ Prizes[j].slot = e.ups[Prizes[j].rank]
             /\ Prizes[j].to = entry(Prizes[j].rank).userId
             /\ Prizes[j].amount = amt(Prizes[j].rank)
             /\ due(Prizes[j].rank)
        /\ \A j, k \in DOMAIN Prizes : j < k => Prizes[j].rank < Prizes[k].rank
        /\ \A r \in 1..Min(5, Len(e.ups)) :
             (due(r) /\ reached(r)) => \E j \in DOMAIN Prizes : Prizes[j].rank = r
        /\ \A r \in 6..Len(e.ups) : \A j \in DOMAIN Prizes : Prizes[j].slot # e.ups[r]

\* six entries ranked, the prize loop over: five prizes sent, one of them raised by a
\* multiplier, and the entry of rank 6 left out
C22_Witness ==
  \E e \in Announcing :
     /\ e.pc = "results"
     /\ Len(e.ups) = 6
     /\ Len(Prizes) = 5
     /\ \E j \in DOMAIN Prizes : Prizes[j].amount > BaseAmt(e.prizePool, Prizes[j].rank)

\* the voter rewards issued so far, in the order they were issued
Rewards == SelectSeq(payouts, LAMBDA p : p.kind = "voter")

RECURSIVE SumOfAmounts(_, _)
SumOfAmounts(vs, S) ==
  IF S = {} THEN 0
  ELSE LET k == CHOOSE k \in S : TRUE IN vs[k].amount + SumOfAmounts(vs, S \ {k})

RECURSIVE SumPaid(_)
SumPaid(ps) == IF ps = <<>> THEN 0 ELSE Head(ps).amount + SumPaid(Tail(ps))

\* C23: in announceWinners, voter rewards go only to voters whose votedFor equals the
\* userId of the rank-1 entry; the share of each is
\* floor(amount / (sum of the amounts of all such voters) * voterPool), sent when it is
\* positive; the shares are ordered like the paid amounts and sum to at most voterPool;
\* a voter whose votedFor names another entry or no entry receives nothing.
C23_RewardsToWinnerVoters ==
  \A e \in Announcing :
     e.pc \in {"voter", "results"} =>
       LET winner == participants[e.ups[1]].userId
           backers == {k \in DOMAIN voters : voters[k].votedFor = winner}
           share(k) == (voters[k].amount * e.voterPool) \div SumOfAmounts(voters, backers)
           reached(k) == e.pc = "results" \/ k <= e.wv[e.i]
       IN /\ \A j \in DOMAIN Rewards :
               /\ Rewards[j].slot \in backers
               /\ Rewards[j].to = voters[Rewards[j].slot].userId
               /\ Rewards[j].amount = share(Rewards[j].slot)
               /\ Rewards[j].amount > 0
          /\ \A j, k \in DOMAIN Rewards : j < k => Rewards[j].slot < Rewards[k].slot
          /\ \A k \in backers :
               (share(k) > 0 /\ reached(k)) => \E j \in DOMAIN Rewards : Rewards[j].slot = k
          /\ \A k, m \in backers :
               voters[k].amount <= voters[m].amount => share(k) <= share(m)
          /\ SumPaid(Rewards) <= e.voterPool
          /\ \A k \in DOMAIN voters \ backers :
               \A j \in DOMAIN Rewards : Rewards[j].slot # k

\* two voters of the winner rewarded with different shares that leave part of the
\* pool unpaid, a third voter who voted for another entry and received nothing
C23_Witness ==
  \E e \in Announcing :
     /\ e.pc = "results"
     /\ Len(Rewards) = 2
     /\ Rewards[1].amount < Rewards[2].amount
     /\ SumPaid(Rewards) < e.voterPool
     /\ \E k \in DOMAIN voters :
          /\ voters[k].votedFor \notin {"", participants[e.ups[1]].userId}
          /\ \A j \in DOMAIN Rewards : Rewards[j].slot # k

\* C24: announceWinners ranks the paid upload entries by votes descending, and the
\* ranking is a function of the ledger alone: it is the one order in which an entry
\* precedes another iff it has more votes, or as many and an earlier place in
\* participants (so entries with equal votes keep their relative order).
C24_RankingStable ==
  \A e \in Announcing :
     /\ Len(e.ups) = Cardinality({i \in DOMAIN participants :
                                    participants[i].choice = "upload" /\ participants[i].paid})
     /\ \A a \in DOMAIN e.ups :
          /\ e.ups[a] \in DOMAIN participants
          /\ participants[e.ups[a]].choice = "upload" /\ participants[e.ups[a]].paid
     /\ \A a, b \in DOMAIN e.ups :
          a < b => \/ participants[e.ups[a]].votes > participants[e.ups[b]].votes
                   \/ /\ participants[e.ups[a]].votes = participants[e.ups[b]].votes
                      /\ e.ups[a] < e.ups[b]

\* a ranking that moves a later entry ahead of an earlier one and has a tie for rank 1
C24_Witness ==
  \E e \in Announcing :
     /\ Len(e.ups) >= 3
     /\ \E a, b \in DOMAIN e.ups : a < b /\ e.ups[a] > e.ups[b]
     /\ participants[e.ups[1]].votes = participants[e.ups[2]].votes
     /\ participants[e.ups[1]].votes > 0

\* ------------------------------------------------ payment split (C25..C27)
\* the amounts of the payments being processed
InSplit == {conf[h].amount : h \in {g \in Slots : conf[g].pc # "idle"}}

\* C25: over the accepted amounts (0.001 to 100 SOL, on a grid with the tier boundaries
\* 0.05, 0.10, 0.50 and 5.00), the retention and the prize multiplier the payment
\* split applies are non-decreasing in the paid amount; the multipliers stored with
\* the registered records are ordered like the amounts paid.
C25_TiersMonotone ==
  /\ \A a \in InSplit : \A b \in TierAmounts :
        /\ a <= b => Retention(a) <= Retention(b) /\ Multiplier(a) <= Multiplier(b)
        /\ b <= a => Retention(b) <= Retention(a) /\ Multiplier(b) <= Multiplier(a)
  /\ \A i, j \in DOMAIN voters :
        voters[i].amount <= voters[j].amount => voters[i].multiplier <= voters[j].multiplier

\* two payments registered, the second in a higher tier than the first
C25_Witness ==
  /\ Len(voters) = 2
  /\ voters[1].amount = 499 /\ voters[2].amount = 500
  /\ voters[1].multiplier < voters[2].multiplier

\* C26: a confirmed payment of 0.01 is split as tier Basic with retention 0.50 and
\* multiplier 1.0; one of 0.60 as tier Whale with retention strictly between 0.65 and
\* 0.75 and multiplier strictly between 1.15 and 1.50; at and above 5.00 the Whale
\* retention and multiplier are 0.75 and 1.50.
C26_TierScenarios ==
  /\ \A a \in InSplit :
        /\ a = 10 => /\ getTier(a) = "Basic"
                     /\ 100 * Retention(a) = 50 * RateDen
                     /\ 100 * Multiplier(a) = 100 * RateDen
        /\ a = 600 => /\ getTier(a) = "Whale"
                      /\ 65 * RateDen < 100 * Retention(a)
                      /\ 100 * Retention(a) < 75 * RateDen
                      /\ 115 * RateDen < 100 * Multiplier(a)
                      /\ 100 * Multiplier(a) < 150 * RateDen
        /\ a >= 5000 => /\ getTier(a) = "Whale"
                        /\ 100 * Retention(a) = 75 * RateDen
                        /\ 100 * Multiplier(a) = 150 * RateDen
  /\ \A i \in DOMAIN voters :
        /\ voters[i].amount = 10 =>
              voters[i].tier = "Basic" /\ 100 * voters[i].multiplier = 100 * RateDen
        /\ voters[i].amount = 600 =>
              /\ voters[i].tier = "Whale"
              /\ 115 * RateDen < 100 * voters[i].multiplier
              /\ 100 * voters[i].multiplier < 150 * RateDen
        /\ voters[i].amount >= 5000 =>
              voters[i].tier = "Whale" /\ 100 * voters[i].multiplier = 150 * RateDen

\* payments of 0.60 and of 100 SOL registered
C26_Witness ==
  /\ Len(voters) = 2
  /\ voters[1].amount = 600 /\ voters[2].amount = 100000

\* C27: the payment split conserves value: with T the tokens purchased,
\* userSUNO = floor(T * retention) with retention in [0.50, 0.75], 0 <= userSUNO <= T,
\* and the step that registers a successful first-time confirmation increases
\* treasurySUNO by exactly T - userSUNO.
C27_SplitConserves ==
  [][\A h \in Slots :
       (conf[h].pc = "transfer" /\ conf'[h].pc = "dm") =>
          LET T == conf[h].totalSUNO
              retention == Retention(conf[h].amount)
              userSUNO == voters'[Len(voters')].sunoReceived
          IN /\ T > 0
             /\ 50 * RateDen <= 100 * retention /\ 100 * retention <= 75 * RateDen
             /\ Len(voters') = Len(voters) + 1
             /\ userSUNO * RateDen <= T * retention
             /\ T * retention < (userSUNO + 1) * RateDen
             /\ 0 <= userSUNO /\ userSUNO <= T
             /\ treasurySUNO' = treasurySUNO + (T - userSUNO)]_vars

\* two successful confirmations, the second split with a remainder lost to the floor,
\* the pool holding both competition shares
C27_Witness ==
  /\ Len(voters) = 2
  /\ Quiet
  /\ voters[2].amount = 600
  /\ voters[2].sunoReceived = 8051
  /\ treasurySUNO = (1000 - voters[1].sunoReceived) + (12345 - 8051)

\* ------------------------------------------------ token variant (C28..C30)
\* C28: in the variant part_001, no operation decreases or resets treasurySOL;
\* atStakeSOL is 0 whenever startNewCycle begins a submission phase; the reset of
\* announceWinners empties atStakeSOL, submissions and pendingPayments and leaves
\* treasurySOL, tokenHolders and totalTokenSupply unchanged.
C28_TreasuryKeptStakeReset ==
  [][/\ part_001'.treasurySOL >= part_001.treasurySOL
     /\ part_001'.cycles = part_001.cycles + 1 =>
           part_001'.phase = "submission" /\ part_001'.atStakeSOL = 0
     /\ ("payouts" \in part_001.runs /\ "payouts" \notin part_001'.runs) =>
           /\ part_001'.atStakeSOL = 0
           /\ part_001'.submissions = <<>>
           /\ part_001'.pendingPayments = <<>>
           /\ part_001'.treasurySOL = part_001.treasurySOL
           /\ part_001'.tokenHolders = part_001.tokenHolders
           /\ part_001'.totalTokenSupply = part_001.totalTokenSupply]_vars

\* C29: in the variant part_001, an audio message from an identity that already has
\* an entry in submissions (paid or unpaid) appends no second entry; a step that
\* appends to submissions appends exactly one entry, unpaid and without wallet.
C29_DuplicateAudioRejected ==
  [][Len(part_001'.submissions) > Len(part_001.submissions) =>
        LET new == part_001'.submissions[Len(part_001'.submissions)]
        IN /\ part_001'.submissions = Append(part_001.submissions, new)
           /\ ~new.paid /\ new.wallet = ""
           /\ \A i \in DOMAIN part_001.submissions :
                 part_001.submissions[i].userId # new.userId]_vars

\* C30: in the variant part_001, marking an entry paid is idempotent: no step changes
\* the paid flag, wallet, amountPaid, tokensPurchased, tier or multiplier of an entry
\* that already has paid = true and stays in submissions.
C30_MarkPaidIdempotent ==
  [][\A i \in DOMAIN part_001.submissions \cap DOMAIN part_001'.submissions :
        part_001.submissions[i].paid =>
           /\ part_001'.submissions[i].paid
           /\ part_001'.submissions[i].wallet = part_001.submissions[i].wallet
           /\ part_001'.submissions[i].amountPaid = part_001.submissions[i].amountPaid
           /\ part_001'.submissions[i].tokensPurchased
                 = part_001.submissions[i].tokensPurchased
           /\ part_001'.submissions[i].tier = part_001.submissions[i].tier
           /\ part_001'.submissions[i].multiplier
                 = part_001.submissions[i].multiplier]_vars

\* ------------------------------------------- confirmations (C31, C32)
\* the request of this step was accepted: valid and not answered "Already processed"
Accepted == req'.n = req.n + 1 /\ req'.status = 0

\* C31: a valid request whose reference is in no pending payment appends one record
\* with that reference, the request's userId and confirmed = true, and starts a handler
\* (the first-time path); its registration step then appends the payer to voters and
\* leaves participants alone.  A valid request whose reference is found unconfirmed
\* sets confirmed on that record and adds no record.
C31_UnknownReferenceConfirmed ==
  [][/\ Accepted =>
          LET r == req'.ref
              k == FindPayment(pendingPayments, r)
              n == Len(pendingPayments)
          IN /\ \E h \in Slots : /\ conf[h].pc = "idle"
                                 /\ conf'[h].pc = "fee"
                                 /\ conf'[h].reference = r
                                 /\ conf'[h].userId = req'.body.userId
             /\ IF k = 0
                THEN /\ Len(pendingPayments') = n + 1
                     /\ SubSeq(pendingPayments', 1, n) = pendingPayments
                     /\ pendingPayments'[n + 1].reference = r
                     /\ pendingPayments'[n + 1].userId = req'.body.userId
                     /\ pendingPayments'[n + 1].confirmed
                     /\ pendingPayments'[n + 1].choice \notin {"upload", "vote"}
                ELSE /\ ~pendingPayments[k].confirmed
                     /\ pendingPayments' = [pendingPayments EXCEPT ![k].confirmed = TRUE]
     /\ \A h \in Slots :
          (/\ conf[h].pc = "transfer" /\ conf'[h].pc = "dm"
           /\ LET k == FindPayment(pendingPayments, conf[h].reference)
              IN k = 0 \/ pendingPayments[k].choice \notin {"upload", "vote"})
          => /\ participants' = participants
             /\ Len(voters') = Len(voters) + 1
             /\ voters'[Len(voters')].userId = conf[h].userId
             /\ voters'[Len(voters')].choice = "vote"]_vars

\* a payer registered as voter through a reference no start_ callback had issued, next
\* to a reference of a start_ callback confirmed on its own record
C31_Witness ==
  /\ \E i \in DOMAIN pendingPayments :
       /\ pendingPayments[i].choice = "none" /\ pendingPayments[i].confirmed
       /\ fx[pendingPayments[i].reference].reg = 1
       /\ \E v \in DOMAIN voters : voters[v].userId = pendingPayments[i].userId
  /\ \E j \in DOMAIN pendingPayments :
       /\ pendingPayments[j].choice # "none" /\ pendingPayments[j].confirmed
       /\ Cardinality({k \in DOMAIN pendingPayments :
              pendingPayments[k].reference = pendingPayments[j].reference}) = 1

\* what was credited to the treasury since the execution e of announceWinners read it
\* (prizePool + voterPool is the treasury it read)
CreditedSince(e) == treasurySUNO - (e.prizePool + e.voterPool)

\* the paid uploads registered since the execution e of announceWinners ranked them
EnteredSince(e) == {i \in Range(Uploaders(participants)) : i \notin Range(e.ups)}

\* C32: when an execution of announceWinners finishes, what handlers credited to the
\* treasury while it was suspended is still in the treasury, and the paid uploads
\* registered while it was suspended are still in participants.
C32_RacingContributionKept ==
  [][\A e \in runs :
       (e.fn = "announceWinners" /\ e.pc = "results" /\ e \notin runs')
       => /\ treasurySUNO' >= CreditedSince(e)
          /\ \A i \in EnteredSince(e) :
               /\ i \in DOMAIN participants'
               /\ participants'[i] = participants[i]]_vars

\* ------------------------------------------------- round end (C33..C35)
\* C33: no entry is sent a prize payout more than once, a crash of the process while
\* announceWinners is suspended at a payout and the restart from the snapshot included.
C33_PrizeAtMostOnce ==
  \A i, j \in DOMAIN prized : prized[i] = prized[j] => i = j

\* the lifecycle steps pending (timers) and running (executions suspended at an await)
LifecycleSteps == Cardinality(timers) + Cardinality(runs)

\* C34: at any time at most one lifecycle step is pending or running, counting the
\* timers for startNewCycle, startVoting and announceWinners and the executions of
\* these functions in progress; a second announceWinners never starts beside one.
C34_OneLifecycleStep ==
  /\ LifecycleSteps <= 1
  /\ \A t \in timers : t.fn \in {"startNewCycle", "startVoting", "announceWinners"}
  /\ \A e \in runs : e.fn \in {"startNewCycle", "startVoting", "announceWinners"}

\* announceWinners suspended at a payout in a process that was restarted, and no timer
C34_Witness ==
  /\ nCrashes = 1
  /\ timers = {}
  /\ \E e \in runs : e.fn = "announceWinners" /\ e.pc = "prize"

\* C35: what one execution of announceWinners has sent, prizes after multipliers and
\* voter rewards together, never exceeds the treasurySUNO it read when it started.
C35_PaidWithinTreasury ==
  \A e \in Announcing : SumPaid(payouts) <= e.prizePool + e.voterPool

\* ------------------------------------------------ voting (C36, C37)
\* C36: a vote_ callback changes the vote count and the voters list of an entry, and
\* the votedFor of a voter, only while the phase is "voting".
C36_VotesOnlyInVoting ==
  [][(phase # "voting" /\ nCrashes' = nCrashes)
     => /\ \A i \in DOMAIN participants \cap DOMAIN participants' :
             /\ participants'[i].votes = participants[i].votes
             /\ participants'[i].voters = participants[i].voters
        /\ \A k \in DOMAIN voters \cap DOMAIN voters' :
             voters'[k].votedFor = voters[k].votedFor]_vars

\* C37: the paid upload entries announceWinners ranks are the entries startVoting
\* posted for voting, also when confirmations complete while startVoting is suspended
\* posting tracks or during the voting phase.
C37_RankedArePosted ==
  \A e \in Announcing : Range(e.ups) = chan.slots

\* --------------------------------------------------- identity (C38)
\* C38: a participant or voter registered for a reference found in pendingPayments
\* carries the userId stored in that pending payment.
C38_RegisteredIdentityBound ==
  [][\A h \in Slots :
       (/\ conf[h].pc = "transfer" /\ conf'[h].pc = "dm"
        /\ FindPayment(pendingPayments, conf[h].reference) # 0)
       => LET owner == pendingPayments[FindPayment(pendingPayments, conf[h].reference)].userId
          IN /\ Len(participants') > Len(participants)
                  => participants'[Len(participants')].userId = owner
             /\ Len(voters') > Len(voters)
                  => voters'[Len(voters')].userId = owner]_vars

\* ------------------------------------------- cycle start of the variants (C39)
\* C39: in the variants, right after startNewCycle has set phase to "submission" at the
\* end of a cycle, submissions holds no entry created in an earlier cycle, also when
\* that cycle ended through the no-paid-submissions branch of startVoting (stated on
\* part_001, whose startNewCycle is that of part_002 line for line).
C39_StartNewCycleCleansUnpaid ==
  [][(part_001.cycles >= 1 /\ part_001'.cycles = part_001.cycles + 1)
     => /\ part_001'.phase = "submission"
        /\ \A i \in DOMAIN part_001'.submissions :
             part_001'.submissions[i].born = part_001'.cycles]_vars

====
